---------------------------- MODULE Spec2Model ----------------------------
(***************************************************************************)
(* Model of the spot detection engine of spot-detector:                    *)
(*   srt_parser.py    SRTParser.parse, Subtitle                            *)
(*   fuzzy_matcher.py FuzzyMatcher.find_in_text, similarity_ratio          *)
(*   detector_v2.py   SpotDetector.detect_spot_in_enregistrements,         *)
(*                    _find_segment_in_recording,                          *)
(*                    _filter_and_group_matches, _time_to_seconds          *)
(*                                                                         *)
(* Representation.                                                         *)
(*  - A Python str is a sequence of one-character strings.                 *)
(*  - Every *_seconds quantity (a Python float holding seconds) is held as *)
(*    an integer number of milliseconds: the SRT timecodes carry exactly   *)
(*    three decimals and the day anchor is a whole number of seconds, so   *)
(*    every value the pipeline computes is a whole number of milliseconds. *)
(*    Floating point rounding is not modelled.                             *)
(*  - A confidence (a float in 0..100) is held in hundredths of a percent  *)
(*    (100.0 is 10000), rounded down; for the text lengths used here two   *)
(*    different ratios never round to the same value.                      *)
(*  - A Detection carries a field obj standing for the identity of the     *)
(*    Python object, so that two candidates with equal fields stay two     *)
(*    candidates.                                                          *)
(***************************************************************************)
EXTENDS Integers, Sequences, FiniteSets, TLC

(***************************************************************************)
(* Python str primitives                                                   *)
(***************************************************************************)
NL == "\n"

Whitespace == {" ", NL, "\t"}

Digits == {"0", "1", "2", "3", "4", "5", "6", "7", "8", "9"}

DigitVal(c) ==
    CASE c = "0" -> 0 [] c = "1" -> 1 [] c = "2" -> 2 [] c = "3" -> 3
      [] c = "4" -> 4 [] c = "5" -> 5 [] c = "6" -> 6 [] c = "7" -> 7
      [] c = "8" -> 8 [] c = "9" -> 9

\* str.lower() on one character (the upper-case letters of the texts used)
LowerChar(c) ==
    CASE c = "A" -> "a" [] c = "C" -> "c" [] c = "P" -> "p" [] c = "B" -> "b"
      [] OTHER -> c

Lower(s) == [k \in 1..Len(s) |-> LowerChar(s[k])]

\* Minimum of a non-empty finite set of integers
SetMin(S) == CHOOSE x \in S : \A y \in S : x <= y

SetMax(S) == CHOOSE x \in S : \A y \in S : y <= x

\* str.lstrip(), str.rstrip(), str.strip()
LStrip(s) ==
    LET keep == {k \in 1..Len(s) : s[k] \notin Whitespace}
    IN  IF keep = {} THEN <<>> ELSE SubSeq(s, SetMin(keep), Len(s))

RStrip(s) ==
    LET keep == {k \in 1..Len(s) : s[k] \notin Whitespace}
    IN  IF keep = {} THEN <<>> ELSE SubSeq(s, 1, SetMax(keep))

Strip(s) == RStrip(LStrip(s))

StartsWith(s, p) == Len(p) <= Len(s) /\ SubSeq(s, 1, Len(p)) = p

\* str.find(sep) + 1: the first position where sep occurs, 0 when it does not
Find(s, sep) ==
    LET hits == {i \in 1..(Len(s) - Len(sep) + 1) :
                    SubSeq(s, i, i + Len(sep) - 1) = sep}
    IN  IF hits = {} THEN 0 ELSE SetMin(hits)

\* str.split(sep): left to right, non-overlapping; "" splits to [""]
RECURSIVE Split(_, _)
Split(s, sep) ==
    LET i == Find(s, sep)
    IN  IF i = 0 THEN <<s>>
        ELSE <<SubSeq(s, 1, i - 1)>>
                 \o Split(SubSeq(s, i + Len(sep), Len(s)), sep)

\* sep.join(parts)
RECURSIVE Join(_, _)
Join(parts, sep) ==
    IF parts = <<>> THEN <<>>
    ELSE IF Len(parts) = 1 THEN parts[1]
    ELSE parts[1] \o sep \o Join(Tail(parts), sep)

\* needle in haystack
Contains(haystack, needle) ==
    \E i \in 0..(Len(haystack) - Len(needle)) :
        SubSeq(haystack, i + 1, i + Len(needle)) = needle

\* str.replace(old, new) for one-character old and new
Replace(s, old, new) == [k \in 1..Len(s) |-> IF s[k] = old THEN new ELSE s[k]]

AllDigits(s) == s # <<>> /\ \A k \in 1..Len(s) : s[k] \in Digits

RECURSIVE DigitsValue(_)
DigitsValue(s) ==
    IF s = <<>> THEN 0
    ELSE DigitsValue(SubSeq(s, 1, Len(s) - 1)) * 10 + DigitVal(s[Len(s)])

\* int(str): surrounding whitespace, an optional sign, decimal digits.
\* ok = FALSE stands for ValueError.
PyInt(s) ==
    LET t    == Strip(s)
        sgn  == t # <<>> /\ Head(t) \in {"+", "-"}
        body == IF sgn THEN Tail(t) ELSE t
    IN  IF AllDigits(body)
        THEN [ok |-> TRUE,
              val |-> IF sgn /\ Head(t) = "-" THEN 0 - DigitsValue(body)
                      ELSE DigitsValue(body)]
        ELSE [ok |-> FALSE, val |-> 0]

\* float(str) for the decimal syntax  digits [ "." up to three digits ],
\* in milliseconds.  ok = FALSE stands for ValueError.
PyFloat(s) ==
    LET t     == Strip(s)
        sgn   == t # <<>> /\ Head(t) \in {"+", "-"}
        body  == IF sgn THEN Tail(t) ELSE t
        parts == Split(body, <<".">>)
        whole == parts[1]
        frac  == IF Len(parts) = 2 THEN parts[2] ELSE <<>>
        pad   == frac \o SubSeq(<<"0", "0", "0">>, 1, 3 - Len(frac))
        good  == /\ Len(parts) <= 2
                 /\ Len(frac) <= 3
                 /\ \A k \in 1..Len(whole) : whole[k] \in Digits
                 /\ \A k \in 1..Len(frac) : frac[k] \in Digits
                 /\ Len(whole) + Len(frac) > 0
        ms    == DigitsValue(whole) * 1000 + DigitsValue(pad)
    IN  IF good
        THEN [ok |-> TRUE, val |-> IF sgn /\ Head(t) = "-" THEN 0 - ms ELSE ms]
        ELSE [ok |-> FALSE, val |-> 0]

(***************************************************************************)
(* srt_parser.py                                                           *)
(***************************************************************************)
\* Subtitle._time_to_seconds: HH:MM:SS,mmm to seconds (here milliseconds);
\* ValueError and IndexError are caught and give 0.0
SubtitleTimeToSeconds_WholeMinutes(time_str) ==
    LET parts   == Split(Replace(time_str, ",", "."), <<":">>)
        hours   == PyInt(parts[1])
        minutes == PyInt(parts[2])
    IN  IF Len(parts) >= 3 /\ hours.ok /\ minutes.ok
        THEN hours.val * 3600000 + minutes.val * 60000
        ELSE 0

SubtitleTimeToSeconds(time_str) ==
    LET parts   == Split(Replace(time_str, ",", "."), <<":">>)
        hours   == PyInt(parts[1])
        minutes == PyInt(parts[2])
        seconds == PyFloat(parts[3])
    IN  IF Len(parts) >= 3 /\ hours.ok /\ minutes.ok /\ seconds.ok
        THEN hours.val * 3600000 + minutes.val * 60000 + seconds.val
        ELSE 0

\* a Subtitle whose seconds are both 0.0 as soon as one conversion fails
Subtitle_AllOrNothing(index, start_time, end_time, text) ==
    [index         |-> index,
     start_time    |-> start_time,
     end_time      |-> end_time,
     text          |-> text,
     start_seconds |-> IF SubtitleTimeToSeconds(end_time) = 0 THEN 0
                       ELSE SubtitleTimeToSeconds(start_time),
     end_seconds   |-> IF SubtitleTimeToSeconds(start_time) = 0 THEN 0
                       ELSE SubtitleTimeToSeconds(end_time)]

\* Subtitle(index, start_time, end_time, text) with __post_init__
Subtitle(index, start_time, end_time, text) ==
    [index         |-> index,
     start_time    |-> start_time,
     end_time      |-> end_time,
     text          |-> text,
     start_seconds |-> SubtitleTimeToSeconds(start_time),
     end_seconds   |-> SubtitleTimeToSeconds(end_time)]

\* a pattern of any characters between the separators: .{2}:.{2}:.{2},.{3}
IsTimecode_AnyChars(s) ==
    /\ Len(s) = 12
    /\ s[3] = ":" /\ s[6] = ":" /\ s[9] = ","

\* \d{2}:\d{2}:\d{2},\d{3}
IsTimecode(s) ==
    /\ Len(s) = 12
    /\ \A k \in {1, 2, 4, 5, 7, 8, 10, 11, 12} : s[k] \in Digits
    /\ s[3] = ":" /\ s[6] = ":" /\ s[9] = ","

\* re.match(r'(\d{2}:\d{2}:\d{2},\d{3})\s*-->\s*(\d{2}:\d{2}:\d{2},\d{3})', line)
TimeMatch(time_line) ==
    LET g1    == SubSeq(time_line, 1, 12)
        rest  == LStrip(SubSeq(time_line, 13, Len(time_line)))
        after == LStrip(SubSeq(rest, 4, Len(rest)))
        g2    == SubSeq(after, 1, 12)
    IN  IF /\ Len(time_line) >= 12 /\ IsTimecode(g1)
           /\ StartsWith(rest, <<"-", "-", ">">>)
           /\ Len(after) >= 12 /\ IsTimecode(g2)
        THEN [ok |-> TRUE, group1 |-> g1, group2 |-> g2]
        ELSE [ok |-> FALSE, group1 |-> <<>>, group2 |-> <<>>]

\* a loop body that emits a segment without timecodes when the time line does
\* not have the pattern
ParseBlock_PartialSegment(block) ==
    LET lines == Split(Strip(block), <<NL>>)
    IN  IF Len(lines) < 3 THEN <<>>
        ELSE LET index      == PyInt(lines[1])
                 time_line  == lines[2]
                 text       == Strip(Join(SubSeq(lines, 3, Len(lines)), <<NL>>))
                 time_match == TimeMatch(time_line)
             IN  IF index.ok
                 THEN << Subtitle(index.val, time_match.group1,
                                  time_match.group2, text) >>
                 ELSE <<>>

\* the body of the loop over blocks: the Subtitles (none or one) of a block
ParseBlock(block) ==
    LET lines == Split(Strip(block), <<NL>>)
    IN  IF Len(lines) < 3 THEN <<>>
        ELSE LET index      == PyInt(lines[1])
                 time_line  == lines[2]
                 text       == Strip(Join(SubSeq(lines, 3, Len(lines)), <<NL>>))
                 time_match == TimeMatch(time_line)
             IN  IF index.ok /\ time_match.ok
                 THEN << Subtitle(index.val, time_match.group1,
                                  time_match.group2, text) >>
                 ELSE <<>>

RECURSIVE ParseBlocks(_)
ParseBlocks(blocks) ==
    IF blocks = <<>> THEN <<>>
    ELSE ParseBlock(Head(blocks)) \o ParseBlocks(Tail(blocks))

\* the segments returned last block first
Parse_LastFirst(srt_content) ==
    LET found_blocks == ParseBlocks(Split(Strip(srt_content), <<NL, NL>>))
    IN  [n \in 1..Len(found_blocks) |-> found_blocks[Len(found_blocks) + 1 - n]]

\* SRTParser.parse
Parse(srt_content) == ParseBlocks(Split(Strip(srt_content), <<NL, NL>>))

(***************************************************************************)
(* fuzzy_matcher.py                                                        *)
(***************************************************************************)
\* config.DEFAULT_THRESHOLD, handed to FuzzyMatcher(threshold=...), in percent
DEFAULT_THRESHOLD == 85

\* a percentage in the unit confidences are held in (hundredths of a percent)
Pct(p) == p * 100

\* Optional[str]
None == [some |-> FALSE, val |-> <<>>]

Some(text) == [some |-> TRUE, val |-> text]

\* truth value of an Optional[str]: None and "" are false
Truthy(opt) == opt.some /\ opt.val # <<>>

\* difflib.SequenceMatcher.find_longest_match(alo, ahi, blo, bhi) without
\* junk: <<i, j, k>> with a[i:i+k] == b[j:j+k], k maximal, then i minimal,
\* then j minimal; <<alo, blo, 0>> when nothing matches.  Indices are Python's
\* (0-based, half-open).
FindLongestMatch(a, b, alo, ahi, blo, bhi) ==
    LET Same(i, j, k) == \A d \in 1..k : a[i + d] = b[j + d]
        blocks == {m \in (alo..(ahi - 1)) \X (blo..(bhi - 1)) \X (1..(ahi - alo)) :
                      /\ m[1] + m[3] <= ahi
                      /\ m[2] + m[3] <= bhi
                      /\ Same(m[1], m[2], m[3])}
        Better(m, n) == \/ m[3] > n[3]
                        \/ m[3] = n[3] /\ m[1] < n[1]
                        \/ m[3] = n[3] /\ m[1] = n[1] /\ m[2] <= n[2]
    IN  IF blocks = {} THEN <<alo, blo, 0>>
        ELSE CHOOSE m \in blocks : \A n \in blocks : Better(m, n)

\* the sum of the sizes of SequenceMatcher.get_matching_blocks(): the longest
\* block, then the same to its left and to its right
RECURSIVE MatchingSize(_, _, _, _, _, _)
MatchingSize(a, b, alo, ahi, blo, bhi) ==
    LET Around(m) ==
            IF m[3] = 0 THEN 0
            ELSE m[3]
                 + (IF alo < m[1] /\ blo < m[2]
                    THEN MatchingSize(a, b, alo, m[1], blo, m[2]) ELSE 0)
                 + (IF m[1] + m[3] < ahi /\ m[2] + m[3] < bhi
                    THEN MatchingSize(a, b, m[1] + m[3], ahi, m[2] + m[3], bhi)
                    ELSE 0)
    IN  Around(FindLongestMatch(a, b, alo, ahi, blo, bhi))

\* SequenceMatcher(None, a, b).ratio() * 100: 2.0 * matches / length, and
\* 1.0 for two empty strings
Ratio(a, b) ==
    IF Len(a) + Len(b) = 0 THEN Pct(100)
    ELSE (2 * MatchingSize(a, b, 0, Len(a), 0, Len(b)) * Pct(100))
             \div (Len(a) + Len(b))

\* a similarity that ignores the order of the characters: 100 for two texts
\* made of the same characters
SimilarityRatio_AnyOrder(s1, s2) ==
    IF /\ Len(s1) = Len(s2)
       /\ \A i \in 1..Len(s1) :
             Cardinality({k \in 1..Len(s1) : Lower(s1)[k] = Lower(s1)[i]})
                 = Cardinality({k \in 1..Len(s2) : Lower(s2)[k] = Lower(s1)[i]})
    THEN Pct(100)
    ELSE Ratio(Lower(s1), Lower(s2))

\* FuzzyMatcher.similarity_ratio
SimilarityRatio(s1, s2) == Ratio(Lower(s1), Lower(s2))

\* best_match and best_confidence after the sliding window loop, given the
\* similarity sims[i] of every window i: the first window that reaches the
\* maximum; None when no window has a similarity above 0 (lines 77-86)
BestOf(haystack_lower, needle_len, sims) ==
    IF SetMax({0} \cup {sims[i] : i \in DOMAIN sims}) = 0
    THEN [matched_text |-> None, confidence |-> 0]
    ELSE [matched_text |->
              Some(SubSeq(haystack_lower,
                          SetMin({i \in DOMAIN sims :
                                     sims[i] = SetMax({sims[x] : x \in DOMAIN sims})}) + 1,
                          SetMin({i \in DOMAIN sims :
                                     sims[i] = SetMax({sims[x] : x \in DOMAIN sims})})
                              + needle_len)),
          confidence |-> SetMax({sims[i] : i \in DOMAIN sims})]

\* the sliding window scan of find_in_text (lines 76-86)
BestWindow(needle_lower, haystack_lower) ==
    BestOf(haystack_lower, Len(needle_lower),
           [i \in 0..(Len(haystack_lower) - Len(needle_lower)) |->
               SimilarityRatio(needle_lower,
                               SubSeq(haystack_lower, i + 1, i + Len(needle_lower)))])

\* the best window returned whatever its similarity
AcceptBest_Always(best, threshold) == best

\* lines 88-91
AcceptBest(best, threshold) ==
    IF best.confidence >= Pct(threshold) THEN best
    ELSE [matched_text |-> None, confidence |-> 0]

\* the verbatim path returning the lowered, stripped needle
FindLowered_LoweredText(needle, needle_lower, haystack_lower, threshold) ==
    IF Contains(haystack_lower, needle_lower)
    THEN [matched_text |-> Some(needle_lower), confidence |-> Pct(100)]
    ELSE AcceptBest(BestWindow(needle_lower, haystack_lower), threshold)

\* lines 71-91 on the lowered, stripped texts
FindLowered(needle, needle_lower, haystack_lower, threshold) ==
    IF Contains(haystack_lower, needle_lower)
    THEN [matched_text |-> Some(needle), confidence |-> Pct(100)]
    ELSE AcceptBest(BestWindow(needle_lower, haystack_lower), threshold)

\* FuzzyMatcher.find_in_text with self.threshold = threshold (in percent)
FindInText(needle, haystack, threshold) ==
    FindLowered(needle, Strip(Lower(needle)), Strip(Lower(haystack)), threshold)

(***************************************************************************)
(* detector_v2.py                                                          *)
(***************************************************************************)
\* SpotDetector._time_to_seconds: HH:MM:SS to seconds since midnight (here
\* milliseconds).  Nothing is caught: ok = FALSE stands for the ValueError of
\* int() or the IndexError of parts[1], parts[2] leaving the function.
TimeToSeconds(time_str) ==
    LET parts   == Split(time_str, <<":">>)
        hours   == PyInt(parts[1])
        minutes == PyInt(parts[2])
        seconds == PyInt(parts[3])
    IN  IF Len(parts) >= 3 /\ hours.ok /\ minutes.ok /\ seconds.ok
        THEN [ok  |-> TRUE,
              val |-> (hours.val * 3600 + minutes.val * 60 + seconds.val) * 1000]
        ELSE [ok |-> FALSE, val |-> 0]

\* every Detection called exact
MatchType_AlwaysExact(confidence) == "exact"

\* "exact" if confidence == 100 else "fuzzy"
MatchType(confidence) == IF confidence = Pct(100) THEN "exact" ELSE "fuzzy"

\* matched_text and confidence >= self.matcher.threshold (line 86)
Qualifies(found) ==
    Truthy(found.matched_text) /\ found.confidence >= Pct(DEFAULT_THRESHOLD)

\* the elements of a finite set of integers in ascending order
Ascending(S) ==
    [n \in 1..Cardinality(S) |-> CHOOSE x \in S : Cardinality({y \in S : y <= x}) = n]

\* the character of a digit value
DigitChar(v) == CHOOSE c \in Digits : DigitVal(c) = v

\* str(n) for n >= 0
RECURSIVE DecimalDigits(_)
DecimalDigits(n) ==
    IF n < 10 THEN <<DigitChar(n)>>
    ELSE DecimalDigits(n \div 10) \o <<DigitChar(n % 10)>>

\* f"{n:0{width}d}" for n >= 0: zeros on the left up to width characters
ZeroPadded(n, width) ==
    [i \in 1..(width - Len(DecimalDigits(n))) |-> "0"] \o DecimalDigits(n)

\* the rendering of lines 177-182 without the wrap of line 176
SecondsToTime_NoWrap(seconds) ==
    ZeroPadded(seconds \div 3600000, 2) \o <<":">>
        \o ZeroPadded((seconds % 3600000) \div 60000, 2) \o <<":">>
        \o ZeroPadded((seconds % 60000) \div 1000, 2) \o <<",">>
        \o ZeroPadded((seconds % 60000) % 1000, 3)

\* SpotDetector._seconds_to_time, seconds in milliseconds: seconds % 86400
\* (never negative, as Python's %), then hours, minutes, secs and millis
SecondsToTime(seconds) == SecondsToTime_NoWrap(seconds % 86400000)

\* a Detection placed at the recording segment, the position of the spot
\* segment in the spot forgotten
NewDetection_NoOffset(obj, spot_id, enreg_id, rec_subtitle, segment_pos_in_spot, spot_duration, base_seconds, confidence) ==
    [obj               |-> obj,
     spot_id           |-> spot_id,
     enregistrement_id |-> enreg_id,
     start_time        |-> SecondsToTime(base_seconds + rec_subtitle.start_seconds),
     start_seconds     |-> base_seconds + rec_subtitle.start_seconds,
     end_time          |-> SecondsToTime(base_seconds + (rec_subtitle.start_seconds + spot_duration)),
     end_seconds       |-> base_seconds + (rec_subtitle.start_seconds + spot_duration),
     confidence        |-> confidence,
     match_type        |-> MatchType(confidence)]

\* a Detection whose seconds are reduced to the time of day like its strings
NewDetection_Wrapped(obj, spot_id, enreg_id, rec_subtitle, segment_pos_in_spot, spot_duration, base_seconds, confidence) ==
    [obj               |-> obj,
     spot_id           |-> spot_id,
     enregistrement_id |-> enreg_id,
     start_time        |-> SecondsToTime(base_seconds + (rec_subtitle.start_seconds - segment_pos_in_spot)),
     start_seconds     |-> (base_seconds + (rec_subtitle.start_seconds - segment_pos_in_spot)) % 86400000,
     end_time          |-> SecondsToTime(base_seconds + ((rec_subtitle.start_seconds - segment_pos_in_spot) + spot_duration)),
     end_seconds       |-> (base_seconds + ((rec_subtitle.start_seconds - segment_pos_in_spot)
                                            + spot_duration)) % 86400000,
     confidence        |-> confidence,
     match_type        |-> MatchType(confidence)]

\* lines 87-105: the Detection made from one qualifying recording segment
NewDetection(obj, spot_id, enreg_id, rec_subtitle, segment_pos_in_spot, spot_duration, base_seconds, confidence) ==
    [obj               |-> obj,
     spot_id           |-> spot_id,
     enregistrement_id |-> enreg_id,
     start_time        |-> SecondsToTime(base_seconds + (rec_subtitle.start_seconds - segment_pos_in_spot)),
     start_seconds     |-> base_seconds + (rec_subtitle.start_seconds - segment_pos_in_spot),
     end_time          |-> SecondsToTime(base_seconds + ((rec_subtitle.start_seconds - segment_pos_in_spot) + spot_duration)),
     end_seconds       |-> base_seconds + ((rec_subtitle.start_seconds - segment_pos_in_spot)
                                           + spot_duration),
     confidence        |-> confidence,
     match_type        |-> MatchType(confidence)]

\* lines 80-108, given what find_in_text returns for every recording segment
\* (founds) and the recording segments that qualify, in order (hits)
MatchesOf(spot_id, enreg_id, recording_subtitles, segment_pos_in_spot, spot_duration, base_seconds, founds, hits, created) ==
    [n \in 1..Len(hits) |->
        NewDetection(created + n, spot_id, enreg_id, recording_subtitles[hits[n]],
                     segment_pos_in_spot, spot_duration, base_seconds,
                     founds[hits[n]].confidence)]

\* lines 80-86: what find_in_text returns for every recording segment
Founds(spot_segment, recording_subtitles) ==
    [r \in 1..Len(recording_subtitles) |->
        FindInText(spot_segment.text, recording_subtitles[r].text, DEFAULT_THRESHOLD)]

QualifyingOf(founds) == Ascending({r \in DOMAIN founds : Qualifies(founds[r])})

MatchesOfFounds(spot_id, enreg_id, recording_subtitles, segment_pos_in_spot, spot_duration, base_seconds, founds, created) ==
    MatchesOf(spot_id, enreg_id, recording_subtitles, segment_pos_in_spot,
              spot_duration, base_seconds, founds, QualifyingOf(founds), created)

\* the call once base_seconds is known (ok = FALSE: line 78 raised)
FindWithBase(spot_id, enreg_id, spot_segment, recording_subtitles, segment_pos_in_spot, spot_duration, base_seconds, created) ==
    IF ~base_seconds.ok THEN [raised |-> TRUE, matches |-> <<>>]
    ELSE [raised  |-> FALSE,
          matches |-> MatchesOfFounds(spot_id, enreg_id, recording_subtitles,
                          segment_pos_in_spot, spot_duration, base_seconds.val,
                          Founds(spot_segment, recording_subtitles), created)]

\* SpotDetector._find_segment_in_recording.  created is the number of
\* Detection objects that exist before the call; raised = TRUE stands for the
\* exception of _time_to_seconds leaving the function.
FindSegmentInRecording(spot_id, enreg_id, spot_segment, recording_subtitles, segment_pos_in_spot, spot_duration, heure_debut, created) ==
    FindWithBase(spot_id, enreg_id, spot_segment, recording_subtitles,
                 segment_pos_in_spot, spot_duration, TimeToSeconds(heure_debut),
                 created)

\* all_detections.extend(matches) (line 59), or the exception going on
Extend(found_so_far, found) ==
    IF found_so_far.raised \/ found.raised
    THEN [raised |-> TRUE, matches |-> <<>>]
    ELSE [raised |-> FALSE, matches |-> found_so_far.matches \o found.matches]

\* the loop over the spot segments for one recording (lines 47-59), from spot
\* segment number s on: all_detections after it, or the exception.
\* found_so_far.matches is all_detections before segment s.
RECURSIVE MatchSpotSegments(_, _, _, _, _, _, _, _)
MatchSpotSegments(spot_id, enreg_id, spot_subtitles, s, recording_subtitles, spot_duration, heure_debut, found_so_far) ==
    IF s > Len(spot_subtitles) \/ found_so_far.raised THEN found_so_far
    ELSE MatchSpotSegments(spot_id, enreg_id, spot_subtitles, s + 1,
             recording_subtitles, spot_duration, heure_debut,
             Extend(found_so_far,
                    FindSegmentInRecording(spot_id, enreg_id, spot_subtitles[s],
                        recording_subtitles,
                        spot_subtitles[s].start_seconds - spot_subtitles[1].start_seconds,
                        spot_duration, heure_debut, Len(found_so_far.matches))))

\* sorted(seq, key=...) / list.sort(key=...): stable; less[i][j] is
\* key(seq[i]) < key(seq[j])
StableSort(seq, less) ==
    LET Before(j, i) == \/ less[j][i]
                        \/ ~less[i][j] /\ j < i
        Rank(i) == Cardinality({j \in 1..Len(seq) : Before(j, i)}) + 1
    IN  [n \in 1..Len(seq) |-> seq[CHOOSE i \in 1..Len(seq) : Rank(i) = n]]

RECURSIVE Flatten(_)
Flatten(seqs) == IF seqs = <<>> THEN <<>> ELSE Head(seqs) \o Flatten(Tail(seqs))

\* a grouping that ignores the recording: one group for every candidate
GroupKey_OneGroup(match) == 0

\* key = match.enregistrement_id (line 121)
GroupKey(match) == match.enregistrement_id

\* the keys of by_enreg, in insertion order (lines 119-124)
EnregKeys(matches) ==
    LET firsts == {k \in 1..Len(matches) :
                      \A j \in 1..(k - 1) : GroupKey(matches[j]) # GroupKey(matches[k])}
        order  == Ascending(firsts)
    IN  [n \in 1..Len(order) |-> GroupKey(matches[order[n]])]

\* by_enreg[key]
ByEnreg(matches, key) == SelectSeq(matches, LAMBDA m : GroupKey(m) = key)

\* sorted(enreg_matches, key=lambda m: m.start_seconds) (line 129)
SortedByStart(enreg_matches) ==
    StableSort(enreg_matches,
               [i \in DOMAIN enreg_matches |-> [j \in DOMAIN enreg_matches |->
                   enreg_matches[i].start_seconds < enreg_matches[j].start_seconds]])

\* no candidate joins the group of another one
InSameSpot_Never(next_match, current, spot_duration) == FALSE

\* time_diff < spot_duration (lines 142-145)
InSameSpot(next_match, current, spot_duration) ==
    next_match.start_seconds - current.start_seconds < spot_duration

\* a group that chains: a candidate joins when it starts less than
\* spot_duration after the candidate before it
GroupEnd_Chained(sorted, i, spot_duration) ==
    SetMin({j \in (i + 1)..(Len(sorted) + 1) :
               \/ j = Len(sorted) + 1
               \/ ~InSameSpot(sorted[j], sorted[j - 1], spot_duration)})

\* j when the inner while loop started at i ends (lines 137-149)
GroupEnd(sorted, i, spot_duration) ==
    SetMin({j \in (i + 1)..(Len(sorted) + 1) :
               \/ j = Len(sorted) + 1
               \/ ~InSameSpot(sorted[j], sorted[i], spot_duration)})

\* a scan that moves on by one candidate instead of past the group
NextI_ByOne(i, j) == i + 1

\* a scan that stays on a candidate that is alone in its group
NextI_Stay(i, j) == IF j > i + 1 THEN j ELSE i

\* i = j if j > i + 1 else i + 1 (line 156)
NextI(i, j) == IF j > i + 1 THEN j ELSE i + 1

\* the same_spot_group lists of the outer while loop from index i on
\* (lines 134-149, 156)
RECURSIVE SameSpotGroups(_, _, _)
SameSpotGroups(sorted, i, spot_duration) ==
    IF i > Len(sorted) THEN <<>>
    ELSE LET j == GroupEnd(sorted, i, spot_duration)
         IN  <<SubSeq(sorted, i, j - 1)>>
                 \o SameSpotGroups(sorted, NextI(i, j), spot_duration)

\* the first member of the group, given the highest confidence of the group
Best_Merged(same_spot_group) ==
    [same_spot_group[1] EXCEPT
        !.confidence = SetMax({same_spot_group[k].confidence :
                                  k \in 1..Len(same_spot_group)})]

\* a choice by confidence first and start second
Best_MostConfident(same_spot_group) ==
    LET KeyLE(x, y) == \/ 0 - x.confidence < 0 - y.confidence
                       \/ /\ x.confidence = y.confidence
                          /\ x.start_seconds <= y.start_seconds
    IN  same_spot_group[SetMin({k \in 1..Len(same_spot_group) :
            \A l \in 1..Len(same_spot_group) :
                KeyLE(same_spot_group[k], same_spot_group[l])})]

\* a choice of the first member whatever its confidence
Best_First(same_spot_group) == same_spot_group[1]

\* min(same_spot_group, key=lambda m: (m.start_seconds, -m.confidence)): the
\* first element whose key is minimal (line 153)
Best(same_spot_group) ==
    LET KeyLE(x, y) == \/ x.start_seconds < y.start_seconds
                       \/ /\ x.start_seconds = y.start_seconds
                          /\ 0 - x.confidence <= 0 - y.confidence
    IN  same_spot_group[SetMin({k \in 1..Len(same_spot_group) :
            \A l \in 1..Len(same_spot_group) :
                KeyLE(same_spot_group[k], same_spot_group[l])})]

\* kept for one recording (lines 129-156)
Kept(enreg_matches, spot_duration) ==
    LET groups == SameSpotGroups(SortedByStart(enreg_matches), 1, spot_duration)
    IN  [g \in 1..Len(groups) |-> Best(groups[g])]

\* a final sort by start_seconds alone
FinalLess_StartOnly(x, y) == x.start_seconds < y.start_seconds

\* key=lambda m: (m.enregistrement_id, m.start_seconds) (line 160)
FinalLess(x, y) ==
    \/ x.enregistrement_id < y.enregistrement_id
    \/ /\ x.enregistrement_id = y.enregistrement_id
       /\ x.start_seconds < y.start_seconds

\* the kept Detections left in the order the recordings were met
SortFiltered_Unsorted(filtered) == filtered

\* filtered.sort(key=lambda m: (m.enregistrement_id, m.start_seconds))
SortFiltered(filtered) ==
    StableSort(filtered,
               [i \in DOMAIN filtered |-> [j \in DOMAIN filtered |->
                   FinalLess(filtered[i], filtered[j])]])

\* SpotDetector._filter_and_group_matches
FilterAndGroupMatches(matches, spot_duration) ==
    IF matches = <<>> THEN matches
    ELSE LET keys     == EnregKeys(matches)
             filtered == Flatten([n \in 1..Len(keys) |->
                                    Kept(ByEnreg(matches, keys[n]), spot_duration)])
         IN  SortFiltered(filtered)

\* if not recording_subtitles / if not spot_subtitles (lines 31, 43)
NoSegments(subtitles) == subtitles = <<>>

\* a loop body without the test of line 43
LoopBody_NoSkip(spot_id, spot_subtitles, spot_duration, entry, found_so_far) ==
    MatchSpotSegments(spot_id, entry[1], spot_subtitles, 1, Parse(entry[2]),
                      spot_duration, entry[3], found_so_far)

\* the body of the for loop of line 40 for one entry (enreg_id, enreg_content,
\* heure_debut): all_detections after it, or the exception.
\* found_so_far.matches is all_detections before it.
LoopBody(spot_id, spot_subtitles, spot_duration, entry, found_so_far) ==
    IF NoSegments(Parse(entry[2])) THEN found_so_far
    ELSE MatchSpotSegments(spot_id, entry[1], spot_subtitles, 1, Parse(entry[2]),
                           spot_duration, entry[3], found_so_far)

\* the for loop of line 40 from entry number e on
RECURSIVE LoopFrom(_, _, _, _, _, _)
LoopFrom(spot_id, spot_subtitles, spot_duration, enregistrements, e, found_so_far) ==
    IF e > Len(enregistrements) \/ found_so_far.raised THEN found_so_far
    ELSE LoopFrom(spot_id, spot_subtitles, spot_duration, enregistrements, e + 1,
                  LoopBody(spot_id, spot_subtitles, spot_duration,
                           enregistrements[e], found_so_far))

\* lines 35-61, the spot having segments
DetectWithSpot(spot_id, spot_subtitles, spot_duration, enregistrements) ==
    LET Return(found) ==
            IF found.raised THEN [raised |-> TRUE, result |-> <<>>]
            ELSE [raised |-> FALSE,
                  result |-> FilterAndGroupMatches(found.matches, spot_duration)]
    IN  Return(LoopFrom(spot_id, spot_subtitles, spot_duration, enregistrements, 1,
                        [raised |-> FALSE, matches |-> <<>>]))

\* SpotDetector.detect_spot_in_enregistrements as one call: the list returned,
\* or raised = TRUE for an exception leaving it
DetectSpotInEnregistrements(spot_id, spot_content, enregistrements) ==
    LET Detect(spot_subtitles) ==
            IF NoSegments(spot_subtitles) THEN [raised |-> FALSE, result |-> <<>>]
            ELSE DetectWithSpot(spot_id, spot_subtitles,
                                spot_subtitles[Len(spot_subtitles)].end_seconds,
                                enregistrements)
    IN  Detect(Parse(spot_content))

(***************************************************************************)
(* Inputs                                                                  *)
(***************************************************************************)
\* the most recordings handed to one call
MaxEnregs == 2

\* the most candidates handed to _filter_and_group_matches directly
MaxMatches == 3

DigitChars == <<"0", "1", "2", "3", "4", "5", "6", "7", "8", "9">>

TwoDigits(n) == <<DigitChars[(n \div 10) + 1], DigitChars[(n % 10) + 1]>>

\* the SRT timecode HH:MM:SS,mmm of a number of milliseconds
Clock(ms) ==
    TwoDigits(ms \div 3600000) \o <<":">> \o TwoDigits((ms \div 60000) % 60)
        \o <<":">> \o TwoDigits((ms \div 1000) % 60)
        \o <<",", DigitChars[((ms \div 100) % 10) + 1]>> \o TwoDigits(ms % 100)

Arrow == <<" ", "-", "-", ">", " ">>

\* one SRT block
Cue(index, start_ms, end_ms, text) ==
    <<DigitChars[index + 1], NL>> \o Clock(start_ms) \o Arrow \o Clock(end_ms)
        \o <<NL>> \o text

PromoA == <<"p", "r", "o", "m", "o", " ", "a">>

CodeB == <<"c", "o", "d", "e", " ", "b">>

\* a block whose index line is not an integer: it parses to no segment
SpotBadIndex == <<"x", NL>> \o Clock(0) \o Arrow \o Clock(2000) \o <<NL>> \o PromoA

\* one segment, 0 s - 2 s
SpotOne == Cue(1, 0, 2000, PromoA)

\* two segments, 0 s - 1 s and 1 s - 2 s
SpotTwo == Cue(1, 0, 1000, PromoA) \o <<NL, NL>> \o Cue(2, 1000, 2000, CodeB)

\* two segments, 1 s - 2 s and 2 s - 3 s: the spot anchor is not 0
SpotLate == Cue(1, 1000, 2000, PromoA) \o <<NL, NL>> \o Cue(2, 2000, 3000, CodeB)

SpotContents == { <<>>, SpotBadIndex, SpotOne, SpotTwo, SpotLate }

\* the first spot text once, in another case, at 100 s
EnregOnce == Cue(1, 100000, 102000, <<"P", "r", "o", "m", "o", " ", "A">>)

\* both spot texts, at 100 s and at 102.2 s
EnregTwice ==
    Cue(1, 100000, 101000, PromoA) \o <<NL, NL>> \o Cue(2, 102200, 103000, CodeB)

\* a near miss of the first spot text at 100 s and the text itself at 200 s
EnregFuzzy ==
    Cue(1, 100000, 102000, <<"p", "r", "o", "m", "o", " ", "x">>)
        \o <<NL, NL>> \o Cue(2, 200000, 202000, <<"a", " ">> \o PromoA)

SixOClock == <<"0", "6", ":", "0", "0", ":", "0", "0">>

BeforeMidnight == <<"2", "3", ":", "5", "9", ":", "0", "0">>

\* a day anchor with two parts only
TwoParts == <<"0", "6", ":", "0", "0">>

\* the recordings: (enreg_content, heure_debut)
Recordings ==
    { <<<<>>, SixOClock>>, <<<<>>, TwoParts>>,
      <<EnregOnce, SixOClock>>, <<EnregOnce, TwoParts>>,
      <<EnregTwice, BeforeMidnight>>, <<EnregFuzzy, SixOClock>> }

EnregIds == 1..MaxEnregs

\* lists of (enreg_id, enreg_content, heure_debut) with distinct ids (the
\* primary keys of the recordings table), in any order
EnregistrementLists ==
    UNION { { [k \in 1..n |-> <<ids[k], recs[k][1], recs[k][2]>>] :
                ids \in {f \in [1..n -> EnregIds] :
                            \A i, j \in 1..n : i # j => f[i] # f[j]},
                recs \in [1..n -> Recordings] } :
            n \in 0..MaxEnregs }

\* the candidates handed to the dedup step directly
CandidateStarts == {100000, 101200, 102000}

CandidateConfidences == {Pct(90), Pct(100)}

SpotDurations == {0, 1200, 2000}

\* _seconds_to_time of the starts and ends of the candidates, formatted once
CandidateTimes ==
    [seconds \in {start + duration : start \in CandidateStarts,
                                      duration \in SpotDurations \cup {0}} |->
        SecondsToTime(seconds)]

Candidate(obj, enreg_id, start_seconds, confidence, spot_duration) ==
    [obj               |-> obj,
     spot_id           |-> 1,
     enregistrement_id |-> enreg_id,
     start_time        |-> CandidateTimes[start_seconds],
     start_seconds     |-> start_seconds,
     end_time          |-> CandidateTimes[start_seconds + spot_duration],
     end_seconds       |-> start_seconds + spot_duration,
     confidence        |-> confidence,
     match_type        |-> MatchType(confidence)]

(***************************************************************************)
(* State                                                                   *)
(***************************************************************************)
VARIABLES
    spot_id,           \* argument of detect_spot_in_enregistrements
    spot_content,      \* argument
    enregistrements,   \* argument
    pc,                \* "start", "loop" (line 40), "filter" (line 61),
                       \* "returned", "raised", "refiltered"
    spot_subtitles,    \* line 29
    spot_duration,     \* line 35
    spot_start_time,   \* line 36
    enreg_index,       \* the position of the for loop of line 40
    all_detections,    \* line 38
    result,            \* the list returned
    refiltered,        \* the list a second dedup of result returns
    needle,            \* argument of find_in_text
    haystack,          \* argument of find_in_text
    threshold,         \* self.threshold of the FuzzyMatcher
    found,             \* what find_in_text returns
    rec_subtitle,      \* the recording segment of lines 80-105
    segment_pos_in_spot,   \* argument of _find_segment_in_recording
    base_seconds,      \* line 78
    srt_blocks,        \* the blocks a transcript handed to parse is made of
    start_time,        \* argument of Subtitle(...)
    end_time,          \* argument of Subtitle(...)
    enreg_matches_sorted,  \* line 129
    kept,              \* line 131
    scan_i,            \* i of line 132, as Python counts (from 0)
    scan_j,            \* j of line 137
    same_spot_group,   \* line 136
    outer_iterations   \* how often the body of the while loop of line 134 was entered

\* the variables of a call of find_in_text, of lines 87-105, of parse or of
\* Subtitle(...) on their own
call_vars == <<needle, haystack, threshold, found, rec_subtitle,
               segment_pos_in_spot, base_seconds, srt_blocks, start_time,
               end_time>>

\* the variables of the scan of lines 131-156 on its own
scan_vars == <<enreg_matches_sorted, kept, scan_i, scan_j, same_spot_group,
               outer_iterations>>

vars == <<spot_id, spot_content, enregistrements, pc, spot_subtitles,
          spot_duration, spot_start_time, enreg_index, all_detections,
          result, refiltered, call_vars, scan_vars>>

\* no scan of lines 131-156 on its own is under way
NoScan ==
    /\ enreg_matches_sorted = <<>>
    /\ kept = <<>>
    /\ scan_i = 0
    /\ scan_j = 0
    /\ same_spot_group = <<>>
    /\ outer_iterations = 0

\* no call of find_in_text or of lines 87-105 on its own is under way
NoCall ==
    /\ needle = <<>>
    /\ haystack = <<>>
    /\ threshold = DEFAULT_THRESHOLD
    /\ found = [matched_text |-> None, confidence |-> 0]
    /\ rec_subtitle = Subtitle(1, <<>>, <<>>, <<>>)
    /\ segment_pos_in_spot = 0
    /\ base_seconds = 0
    /\ srt_blocks = <<>>
    /\ start_time = <<>>
    /\ end_time = <<>>

Init ==
    /\ spot_id = 1
    /\ spot_content \in SpotContents
    /\ enregistrements \in EnregistrementLists
    /\ pc = "start"
    /\ spot_subtitles = <<>>
    /\ spot_duration = 0
    /\ spot_start_time = 0
    /\ enreg_index = 1
    /\ all_detections = <<>>
    /\ result = <<>>
    /\ refiltered = <<>>
    /\ NoCall
    /\ NoScan

\* where the for loop of line 40 goes with its next index
LoopPc(next_index) == IF next_index > Len(enregistrements) THEN "filter" ELSE "loop"

\* lines 28-38 without the test of line 31: spot_subtitles[-1] raises
SpotWithoutSegments_Raises ==
    /\ pc = "start"
    /\ NoSegments(Parse(spot_content))
    /\ pc' = "raised"
    /\ UNCHANGED call_vars
    /\ UNCHANGED <<spot_id, spot_content, enregistrements, spot_subtitles,
                   spot_duration, spot_start_time, enreg_index, all_detections,
                   result, refiltered>>
    /\ UNCHANGED scan_vars

\* lines 28-33: the spot has no segment, [] is returned
SpotWithoutSegments ==
    /\ pc = "start"
    /\ NoSegments(Parse(spot_content))
    /\ pc' = "returned"
    /\ result' = <<>>
    /\ UNCHANGED call_vars
    /\ UNCHANGED <<spot_id, spot_content, enregistrements, spot_subtitles,
                   spot_duration, spot_start_time, enreg_index, all_detections,
                   refiltered>>
    /\ UNCHANGED scan_vars

\* lines 28-38
SpotParsed ==
    /\ pc = "start"
    /\ ~NoSegments(Parse(spot_content))
    /\ spot_subtitles' = Parse(spot_content)
    /\ spot_duration' = spot_subtitles'[Len(spot_subtitles')].end_seconds
    /\ spot_start_time' = spot_subtitles'[1].start_seconds
    /\ all_detections' = <<>>
    /\ enreg_index' = 1
    /\ pc' = LoopPc(1)
    /\ UNCHANGED call_vars
    /\ UNCHANGED <<spot_id, spot_content, enregistrements, result, refiltered>>
    /\ UNCHANGED scan_vars

\* lines 40-59 for the recording at enreg_index
BodyOutcome ==
    LoopBody(spot_id, spot_subtitles, spot_duration, enregistrements[enreg_index],
             [raised |-> FALSE, matches |-> all_detections])

\* lines 40-59: one recording is skipped, or matched against every spot segment
NextEnregistrement ==
    /\ pc = "loop"
    /\ \E outcome \in {BodyOutcome} :
          /\ ~outcome.raised
          /\ all_detections' = outcome.matches
    /\ enreg_index' = enreg_index + 1
    /\ pc' = LoopPc(enreg_index + 1)
    /\ UNCHANGED call_vars
    /\ UNCHANGED <<spot_id, spot_content, enregistrements, spot_subtitles,
                   spot_duration, spot_start_time, result, refiltered>>
    /\ UNCHANGED scan_vars

\* lines 40-59, 78: _time_to_seconds raises and nothing catches it
RaiseInEnregistrement ==
    /\ pc = "loop"
    /\ \E outcome \in {BodyOutcome} : outcome.raised
    /\ pc' = "raised"
    /\ UNCHANGED call_vars
    /\ UNCHANGED <<spot_id, spot_content, enregistrements, spot_subtitles,
                   spot_duration, spot_start_time, enreg_index, all_detections,
                   result, refiltered>>
    /\ UNCHANGED scan_vars

\* line 61
FilterAndGroup ==
    /\ pc = "filter"
    /\ result' = FilterAndGroupMatches(all_detections, spot_duration)
    /\ pc' = "returned"
    /\ UNCHANGED call_vars
    /\ UNCHANGED <<spot_id, spot_content, enregistrements, spot_subtitles,
                   spot_duration, spot_start_time, enreg_index, all_detections,
                   refiltered>>
    /\ UNCHANGED scan_vars

Next ==
    \/ SpotWithoutSegments
    \/ SpotParsed
    \/ NextEnregistrement
    \/ RaiseInEnregistrement
    \/ FilterAndGroup

Spec == Init /\ [][Next]_vars

(***************************************************************************)
(* _filter_and_group_matches on its own: any candidate list and duration,  *)
(* deduplicated once and then once more                                    *)
(***************************************************************************)
InitDedup ==
    /\ spot_id = 1
    /\ spot_content = <<>>
    /\ enregistrements = <<>>
    /\ pc = "filter"
    /\ spot_subtitles = <<>>
    /\ spot_duration \in SpotDurations
    /\ spot_start_time = 0
    /\ enreg_index = 1
    /\ \E n \in 0..MaxMatches :
          \E l \in [1..n -> {1, 2} \X CandidateStarts \X CandidateConfidences] :
             all_detections =
                 [k \in 1..n |-> Candidate(k, l[k][1], l[k][2], l[k][3], spot_duration)]
    /\ result = <<>>
    /\ refiltered = <<>>
    /\ NoCall
    /\ NoScan

\* _filter_and_group_matches(result, spot_duration)
FilterAgain ==
    /\ pc = "returned"
    /\ refiltered' = FilterAndGroupMatches(result, spot_duration)
    /\ pc' = "refiltered"
    /\ UNCHANGED call_vars
    /\ UNCHANGED <<spot_id, spot_content, enregistrements, spot_subtitles,
                   spot_duration, spot_start_time, enreg_index, all_detections,
                   result>>
    /\ UNCHANGED scan_vars

NextDedup == FilterAndGroup \/ FilterAgain

SpecDedup == InitDedup /\ [][NextDedup]_vars

(***************************************************************************)
(* find_in_text on its own: any needle, haystack and threshold             *)
(***************************************************************************)
\* the longest needle and the longest haystack
MaxNeedleLen == 2

MaxHaystackLen == 3

\* every string of at most n characters of the set chars
StringsUpTo(n, chars) == UNION {[1..k -> chars] : k \in 0..n}

Needles == StringsUpTo(MaxNeedleLen, {"a", "B", " "})

Haystacks == StringsUpTo(MaxHaystackLen, {"a", "b", " "})

Thresholds == {0, 50, DEFAULT_THRESHOLD, 100, 101}

InitMatcher ==
    /\ spot_id = 1
    /\ spot_content = <<>>
    /\ enregistrements = <<>>
    /\ pc = "find"
    /\ spot_subtitles = <<>>
    /\ spot_duration = 0
    /\ spot_start_time = 0
    /\ enreg_index = 1
    /\ all_detections = <<>>
    /\ result = <<>>
    /\ refiltered = <<>>
    /\ needle \in Needles
    /\ haystack \in Haystacks
    /\ threshold \in Thresholds
    /\ found = [matched_text |-> None, confidence |-> 0]
    /\ rec_subtitle = Subtitle(1, <<>>, <<>>, <<>>)
    /\ segment_pos_in_spot = 0
    /\ base_seconds = 0
    /\ srt_blocks = <<>>
    /\ start_time = <<>>
    /\ end_time = <<>>
    /\ NoScan

\* self.matcher.find_in_text(needle, haystack)
FindInTextCall ==
    /\ pc = "find"
    /\ found' = FindInText(needle, haystack, threshold)
    /\ pc' = "found"
    /\ UNCHANGED <<needle, haystack, threshold, rec_subtitle, segment_pos_in_spot,
                   base_seconds, srt_blocks, start_time, end_time>>
    /\ UNCHANGED <<spot_id, spot_content, enregistrements, spot_subtitles,
                   spot_duration, spot_start_time, enreg_index, all_detections,
                   result, refiltered>>
    /\ UNCHANGED scan_vars

NextMatcher == FindInTextCall

SpecMatcher == InitMatcher /\ [][NextMatcher]_vars

(***************************************************************************)
(* Lines 87-105 on their own: one qualifying recording segment, any        *)
(* position of the spot segment, any day anchor                            *)
(***************************************************************************)
\* where the recording segment starts, in milliseconds
RecordingStarts == {0, 500, 100000, 3599999}

\* segment_pos_in_spot: the start of the spot segment less the start of the
\* first one (negative when the spot's segments are out of order)
SegmentPositions == {0 - 1000, 0, 1000, 1200}

\* _time_to_seconds of the anchors 00:00:00, 06:00:00, 23:59:59 and 99:99:99
BaseSeconds == {0, 21600000, 86399000, 362439000}

\* what find_in_text returned for the segment
QualifyingFounds ==
    {[matched_text |-> Some(PromoA), confidence |-> Pct(100)],
     [matched_text |-> Some(PromoA), confidence |-> 8571]}

InitDetection ==
    /\ spot_id = 1
    /\ spot_content = <<>>
    /\ enregistrements = <<>>
    /\ pc = "qualified"
    /\ spot_subtitles = <<>>
    /\ spot_duration \in SpotDurations
    /\ spot_start_time = 0
    /\ enreg_index = 1
    /\ all_detections = <<>>
    /\ result = <<>>
    /\ refiltered = <<>>
    /\ needle = PromoA
    /\ haystack = PromoA
    /\ threshold = DEFAULT_THRESHOLD
    /\ found \in QualifyingFounds
    /\ rec_subtitle \in {Subtitle(1, Clock(t), Clock(t + 1000), PromoA) : t \in RecordingStarts}
    /\ segment_pos_in_spot \in SegmentPositions
    /\ base_seconds \in BaseSeconds
    /\ srt_blocks = <<>>
    /\ start_time = <<>>
    /\ end_time = <<>>
    /\ NoScan

\* lines 87-105: the Detection is made and appended to matches
CreateDetection ==
    /\ pc = "qualified"
    /\ Qualifies(found)
    /\ all_detections' = Append(all_detections,
                                NewDetection(Len(all_detections) + 1, spot_id, 1, rec_subtitle,
                                             segment_pos_in_spot, spot_duration,
                                             base_seconds, found.confidence))
    /\ pc' = "created"
    /\ UNCHANGED call_vars
    /\ UNCHANGED <<spot_id, spot_content, enregistrements, spot_subtitles,
                   spot_duration, spot_start_time, enreg_index, result, refiltered>>
    /\ UNCHANGED scan_vars

NextDetection == CreateDetection

SpecDetection == InitDetection /\ [][NextDetection]_vars

(***************************************************************************)
(* parse on its own: transcripts made of good and bad blocks in any order  *)
(***************************************************************************)
\* the most blocks of a transcript
MaxBlocks == 3

Hello == <<"H", "e", "l", "l", "o">>

World == <<"W", "o", "r", "l", "d">>

\* a block as it is written: first line, time line, then the text lines
Block(index_line, time_line, text_lines) ==
    index_line \o <<NL>> \o time_line \o <<NL>> \o text_lines

\* the blocks transcripts are made of.  sound tells whether the block has
\* three lines, an integer first line and the timecode pattern on the second;
\* index, text and the timecodes are what a sound block says.
HelloBlock ==
    [raw |-> Block(<<"1">>, Clock(1000) \o Arrow \o Clock(2000), Hello),
     sound |-> TRUE, index |-> 1, text |-> Hello,
     start_time |-> Clock(1000), end_time |-> Clock(2000)]

WorldBlock ==
    [raw |-> Block(<<"2">>, Clock(3000) \o Arrow \o Clock(4000), World),
     sound |-> TRUE, index |-> 2, text |-> World,
     start_time |-> Clock(3000), end_time |-> Clock(4000)]

\* a cue that ends before it starts, with two text lines and no space around
\* the arrow
ReversedBlock ==
    [raw |-> Block(<<"3">>, Clock(3000) \o <<"-", "-", ">">> \o Clock(1000), Hello \o <<NL>> \o World),
     sound |-> TRUE, index |-> 3, text |-> Hello \o <<NL>> \o World,
     start_time |-> Clock(3000), end_time |-> Clock(1000)]

\* 99 minutes before one hour
LongMinutesBlock ==
    [raw |-> Block(<<"4">>, <<"0", "0", ":", "9", "9", ":", "0", "0", ",", "0", "0", "0">> \o Arrow \o Clock(3600000), PromoA),
     sound |-> TRUE, index |-> 4, text |-> PromoA,
     start_time |-> <<"0", "0", ":", "9", "9", ":", "0", "0", ",", "0", "0", "0">>,
     end_time |-> Clock(3600000)]

TwoLineBlock ==
    [raw |-> <<"5", NL>> \o Clock(5000) \o Arrow \o Clock(6000),
     sound |-> FALSE, index |-> 5, text |-> <<>>,
     start_time |-> Clock(5000), end_time |-> Clock(6000)]

NoIntegerBlock ==
    [raw |-> Block(<<"x">>, Clock(5000) \o Arrow \o Clock(6000), CodeB),
     sound |-> FALSE, index |-> 6, text |-> CodeB,
     start_time |-> Clock(5000), end_time |-> Clock(6000)]

\* the time line has one digit of hours
NoPatternBlock ==
    [raw |-> Block(<<"7">>, Tail(Clock(5000)) \o Arrow \o Clock(6000), CodeB),
     sound |-> FALSE, index |-> 7, text |-> CodeB,
     start_time |-> Tail(Clock(5000)), end_time |-> Clock(6000)]

\* the hours of the first timecode are letters
LettersBlock ==
    [raw |-> Block(<<"8">>, <<"a", "a">> \o SubSeq(Clock(5000), 3, 12) \o Arrow \o Clock(6000), CodeB),
     sound |-> FALSE, index |-> 8, text |-> CodeB,
     start_time |-> <<"a", "a">> \o SubSeq(Clock(5000), 3, 12), end_time |-> Clock(6000)]

\* a cue that starts at 00:00:00,000
ZeroBlock ==
    [raw |-> Block(<<"9">>, Clock(0) \o Arrow \o Clock(500), CodeB),
     sound |-> TRUE, index |-> 9, text |-> CodeB,
     start_time |-> Clock(0), end_time |-> Clock(500)]

Blocks ==
    {HelloBlock, WorldBlock, ReversedBlock, LongMinutesBlock, TwoLineBlock,
     NoIntegerBlock, NoPatternBlock, LettersBlock, ZeroBlock}

BlockLists == UNION {[1..n -> Blocks] : n \in 0..MaxBlocks}

\* the transcript made of blocks: a blank line between blocks, a newline at
\* the end
RECURSIVE Transcript(_)
Transcript(blocks) ==
    IF blocks = <<>> THEN <<>>
    ELSE IF Len(blocks) = 1 THEN blocks[1].raw \o <<NL>>
    ELSE blocks[1].raw \o <<NL, NL>> \o Transcript(Tail(blocks))

InitParse ==
    /\ spot_id = 1
    /\ srt_blocks \in BlockLists
    /\ spot_content = Transcript(srt_blocks)
    /\ enregistrements = <<>>
    /\ pc = "parse"
    /\ spot_subtitles = <<>>
    /\ spot_duration = 0
    /\ spot_start_time = 0
    /\ enreg_index = 1
    /\ all_detections = <<>>
    /\ result = <<>>
    /\ refiltered = <<>>
    /\ needle = <<>>
    /\ haystack = <<>>
    /\ threshold = DEFAULT_THRESHOLD
    /\ found = [matched_text |-> None, confidence |-> 0]
    /\ rec_subtitle = Subtitle(1, <<>>, <<>>, <<>>)
    /\ segment_pos_in_spot = 0
    /\ base_seconds = 0
    /\ start_time = <<>>
    /\ end_time = <<>>
    /\ NoScan

\* spot_subtitles = self.parser.parse(spot_content) (line 28)
ParseCall ==
    /\ pc = "parse"
    /\ spot_subtitles' = Parse(spot_content)
    /\ pc' = "parsed"
    /\ UNCHANGED call_vars
    /\ UNCHANGED <<spot_id, spot_content, enregistrements, spot_duration,
                   spot_start_time, enreg_index, all_detections, result, refiltered>>
    /\ UNCHANGED scan_vars

NextParse == ParseCall

SpecParse == InitParse /\ [][NextParse]_vars

(***************************************************************************)
(* Subtitle(...) on its own: timecode strings that convert and that do not *)
(***************************************************************************)
\* timecode strings, with whether hours, minutes and seconds can be read
\* from them and, when they can, the milliseconds they stand for
TimeStrings ==
    {[str |-> Clock(1000), converts |-> TRUE, ms |-> 1000],
     [str |-> Clock(2500), converts |-> TRUE, ms |-> 2500],
     [str |-> Clock(3723004), converts |-> TRUE, ms |-> 3723004],
     [str |-> <<"1", ":", "2", ":", "3">>, converts |-> TRUE, ms |-> 3723000],
     [str |-> <<"0", "6", ":", "0", "0">>, converts |-> FALSE, ms |-> 0],
     [str |-> <<"a", "a">> \o SubSeq(Clock(1000), 3, 12), converts |-> FALSE, ms |-> 0],
     [str |-> <<"0", "0", ":", "b", "b">> \o SubSeq(Clock(1000), 6, 12), converts |-> FALSE, ms |-> 0],
     [str |-> <<"0", "0", ":", "0", "0", ":", "1", ",", "5", ",", "0">>, converts |-> FALSE, ms |-> 0],
     [str |-> <<>>, converts |-> FALSE, ms |-> 0]}

InitSubtitle ==
    /\ spot_id = 1
    /\ spot_content = <<>>
    /\ enregistrements = <<>>
    /\ pc = "construct"
    /\ spot_subtitles = <<>>
    /\ spot_duration = 0
    /\ spot_start_time = 0
    /\ enreg_index = 1
    /\ all_detections = <<>>
    /\ result = <<>>
    /\ refiltered = <<>>
    /\ needle = <<>>
    /\ haystack = <<>>
    /\ threshold = DEFAULT_THRESHOLD
    /\ found = [matched_text |-> None, confidence |-> 0]
    /\ rec_subtitle = Subtitle(1, <<>>, <<>>, <<>>)
    /\ segment_pos_in_spot = 0
    /\ base_seconds = 0
    /\ srt_blocks = <<>>
    /\ start_time \in {t.str : t \in TimeStrings}
    /\ end_time \in {t.str : t \in TimeStrings}
    /\ NoScan

\* Subtitle(index=1, start_time=..., end_time=..., text='Hello')
ConstructSubtitle ==
    /\ pc = "construct"
    /\ rec_subtitle' = Subtitle(1, start_time, end_time, Hello)
    /\ pc' = "constructed"
    /\ UNCHANGED <<needle, haystack, threshold, found, segment_pos_in_spot,
                   base_seconds, srt_blocks, start_time, end_time>>
    /\ UNCHANGED <<spot_id, spot_content, enregistrements, spot_subtitles,
                   spot_duration, spot_start_time, enreg_index, all_detections,
                   result, refiltered>>
    /\ UNCHANGED scan_vars

NextSubtitle == ConstructSubtitle

SpecSubtitle == InitSubtitle /\ [][NextSubtitle]_vars

(***************************************************************************)
(* detect_spot_in_enregistrements on recordings that carry the spot once   *)
(***************************************************************************)
EndC == <<"e", "n", "d", " ", "c">>

\* the spots, as the (start, end, text) of their segments in file order
SpotSegments ==
    { <<[start_ms |-> 0, end_ms |-> 2000, text |-> PromoA]>>,
      <<[start_ms |-> 0, end_ms |-> 0, text |-> PromoA]>>,
      <<[start_ms |-> 0, end_ms |-> 1000, text |-> PromoA],
        [start_ms |-> 1000, end_ms |-> 2000, text |-> CodeB]>>,
      <<[start_ms |-> 1000, end_ms |-> 2000, text |-> PromoA],
        [start_ms |-> 2000, end_ms |-> 3000, text |-> CodeB]>>,
      <<[start_ms |-> 0, end_ms |-> 1000, text |-> PromoA],
        [start_ms |-> 0, end_ms |-> 0, text |-> CodeB]>>,
      <<[start_ms |-> 0, end_ms |-> 1000, text |-> PromoA],
        [start_ms |-> 1000, end_ms |-> 2000, text |-> CodeB],
        [start_ms |-> 2000, end_ms |-> 3000, text |-> EndC]>> }

\* the SRT text of segments 1..n of segs
RECURSIVE Cues(_, _)
Cues(segs, n) ==
    IF n = 0 THEN <<>>
    ELSE (IF n = 1 THEN <<>> ELSE Cues(segs, n - 1) \o <<NL, NL>>)
            \o Cue(n, segs[n].start_ms, segs[n].end_ms, segs[n].text)

\* a recording that plays the spot from t0 on: segment i of the spot is said
\* at t0 plus its offset in the spot, delay later for each segment before it,
\* between other words when padded
Broadcast(segs, t0, delay, padded) ==
    Cues([i \in DOMAIN segs |->
            [start_ms |-> t0 + (segs[i].start_ms - segs[1].start_ms) + (i - 1) * delay,
             end_ms   |-> t0 + (segs[i].start_ms - segs[1].start_ms) + (i - 1) * delay + 500,
             text     |-> IF padded THEN <<"a", " ">> \o segs[i].text \o <<" ", "x">>
                          ELSE segs[i].text]],
         Len(segs))

\* the (enreg_content, heure_debut) handed over next to the broadcast
OtherRecordings ==
    { <<<<>>, SixOClock>>, <<EnregFuzzy, SixOClock>>, <<EnregOnce, BeforeMidnight>> }

\* the recording of the broadcast alone (id 1), or with one other recording
\* (id 2) before or after it
ListsAround(main) ==
    { <<<<1, main[1], main[2]>>>> }
        \cup { <<<<1, main[1], main[2]>>, <<2, o[1], o[2]>>>> : o \in OtherRecordings }
        \cup { <<<<2, o[1], o[2]>>, <<1, main[1], main[2]>>>> : o \in OtherRecordings }

InitBroadcast ==
    /\ spot_id = 1
    /\ \E segs \in SpotSegments, t0 \in {0, 100000}, delay \in {0, 200},
          padded \in BOOLEAN, heure_debut \in {SixOClock, BeforeMidnight} :
            /\ spot_content = Cues(segs, Len(segs))
            /\ enregistrements \in
                   ListsAround(<<Broadcast(segs, t0, delay, padded), heure_debut>>)
    /\ pc = "detect"
    /\ spot_subtitles = <<>>
    /\ spot_duration = 0
    /\ spot_start_time = 0
    /\ enreg_index = 1
    /\ all_detections = <<>>
    /\ result = <<>>
    /\ refiltered = <<>>
    /\ NoCall
    /\ NoScan

\* detect_spot_in_enregistrements(spot_id, spot_content, enregistrements)
DetectCall ==
    /\ pc = "detect"
    /\ \E outcome \in {DetectSpotInEnregistrements(spot_id, spot_content, enregistrements)} :
          /\ result' = outcome.result
          /\ pc' = IF outcome.raised THEN "raised" ELSE "returned"
    /\ UNCHANGED <<spot_id, spot_content, enregistrements, spot_subtitles,
                   spot_duration, spot_start_time, enreg_index, all_detections,
                   refiltered>>
    /\ UNCHANGED call_vars
    /\ UNCHANGED scan_vars

NextBroadcast == DetectCall

SpecBroadcast == InitBroadcast /\ [][NextBroadcast]_vars

(***************************************************************************)
(* Candidates of one recording around midnight: made one by one (lines     *)
(* 80-105), then deduplicated (line 61)                                    *)
(***************************************************************************)
\* the most candidates made before the dedup step
MaxAround == 2

\* where the qualifying recording segments start, in milliseconds
StartsAround == {0, 500, 1500, 2500}

\* segment_pos_in_spot of the spot segments
PositionsAround == {0, 1000}

InitAround ==
    /\ spot_id = 1
    /\ spot_content = <<>>
    /\ enregistrements = <<>>
    /\ pc = "qualified"
    /\ spot_subtitles = <<>>
    /\ spot_duration \in {0, 2000}
    /\ spot_start_time = 0
    /\ enreg_index = 1
    /\ all_detections = <<>>
    /\ result = <<>>
    /\ refiltered = <<>>
    /\ needle = PromoA
    /\ haystack = PromoA
    /\ threshold = DEFAULT_THRESHOLD
    /\ found = [matched_text |-> None, confidence |-> 0]
    /\ rec_subtitle = Subtitle(1, <<>>, <<>>, <<>>)
    /\ segment_pos_in_spot = 0
    /\ base_seconds \in {0, 86399000}
    /\ srt_blocks = <<>>
    /\ start_time = <<>>
    /\ end_time = <<>>
    /\ NoScan

\* one pass of the loop of line 80 on a recording segment that qualifies
\* (lines 81-105): the Detection is made and appended
MakeCandidate ==
    /\ pc = "qualified"
    /\ Len(all_detections) < MaxAround
    /\ \E t \in StartsAround, pos \in PositionsAround, f \in QualifyingFounds :
          /\ Qualifies(f)
          /\ rec_subtitle' = Subtitle(1, Clock(t), Clock(t + 1000), PromoA)
          /\ segment_pos_in_spot' = pos
          /\ found' = f
          /\ all_detections' =
                 Append(all_detections,
                        NewDetection(Len(all_detections) + 1, spot_id, 1,
                                     Subtitle(1, Clock(t), Clock(t + 1000), PromoA),
                                     pos, spot_duration, base_seconds, f.confidence))
    /\ UNCHANGED <<needle, haystack, threshold, base_seconds, srt_blocks,
                   start_time, end_time>>
    /\ UNCHANGED <<spot_id, spot_content, enregistrements, pc, spot_subtitles,
                   spot_duration, spot_start_time, enreg_index, result, refiltered>>
    /\ UNCHANGED scan_vars

\* the loops of lines 40 and 47 are through
CandidatesMade ==
    /\ pc = "qualified"
    /\ pc' = "filter"
    /\ UNCHANGED call_vars
    /\ UNCHANGED <<spot_id, spot_content, enregistrements, spot_subtitles,
                   spot_duration, spot_start_time, enreg_index, all_detections,
                   result, refiltered>>
    /\ UNCHANGED scan_vars

NextAround == MakeCandidate \/ CandidatesMade \/ FilterAndGroup

SpecAround == InitAround /\ [][NextAround]_vars

(***************************************************************************)
(* The scan of lines 131-156 step by step, on the sorted candidates of one *)
(* recording                                                               *)
(***************************************************************************)
InitScan ==
    /\ spot_id = 1
    /\ spot_content = <<>>
    /\ enregistrements = <<>>
    /\ pc = "while"
    /\ spot_subtitles = <<>>
    /\ spot_duration \in SpotDurations
    /\ spot_start_time = 0
    /\ enreg_index = 1
    /\ all_detections = <<>>
    /\ result = <<>>
    /\ refiltered = <<>>
    /\ NoCall
    /\ \E n \in 0..MaxMatches :
          \E l \in [1..n -> CandidateStarts \X CandidateConfidences] :
             enreg_matches_sorted =
                 SortedByStart([k \in 1..n |->
                                   Candidate(k, 1, l[k][1], l[k][2], spot_duration)])
    /\ kept = <<>>
    /\ scan_i = 0
    /\ scan_j = 0
    /\ same_spot_group = <<>>
    /\ outer_iterations = 0

\* lines 134-137: the test of the outer while holds and its body is entered
EnterBody ==
    /\ pc = "while"
    /\ scan_i < Len(enreg_matches_sorted)
    /\ same_spot_group' = <<enreg_matches_sorted[scan_i + 1]>>
    /\ scan_j' = scan_i + 1
    /\ outer_iterations' = outer_iterations + 1
    /\ pc' = "inner"
    /\ UNCHANGED <<enreg_matches_sorted, kept, scan_i>>
    /\ UNCHANGED call_vars
    /\ UNCHANGED <<spot_id, spot_content, enregistrements, spot_subtitles,
                   spot_duration, spot_start_time, enreg_index, all_detections,
                   result, refiltered>>

\* line 134: the test of the outer while fails
ScanDone ==
    /\ pc = "while"
    /\ ~(scan_i < Len(enreg_matches_sorted))
    /\ pc' = "scanned"
    /\ UNCHANGED scan_vars
    /\ UNCHANGED call_vars
    /\ UNCHANGED <<spot_id, spot_content, enregistrements, spot_subtitles,
                   spot_duration, spot_start_time, enreg_index, all_detections,
                   result, refiltered>>

\* lines 140-147: next_match joins the group
JoinGroup ==
    /\ pc = "inner"
    /\ scan_j < Len(enreg_matches_sorted)
    /\ InSameSpot(enreg_matches_sorted[scan_j + 1], enreg_matches_sorted[scan_i + 1],
                  spot_duration)
    /\ same_spot_group' = Append(same_spot_group, enreg_matches_sorted[scan_j + 1])
    /\ scan_j' = scan_j + 1
    /\ UNCHANGED <<enreg_matches_sorted, kept, scan_i, outer_iterations>>
    /\ UNCHANGED call_vars
    /\ UNCHANGED <<spot_id, spot_content, enregistrements, pc, spot_subtitles,
                   spot_duration, spot_start_time, enreg_index, all_detections,
                   result, refiltered>>

\* lines 140, 148-149: the inner while ends, by its test or by break
LeaveInner ==
    /\ pc = "inner"
    /\ \/ ~(scan_j < Len(enreg_matches_sorted))
       \/ /\ scan_j < Len(enreg_matches_sorted)
          /\ ~InSameSpot(enreg_matches_sorted[scan_j + 1],
                         enreg_matches_sorted[scan_i + 1], spot_duration)
    /\ pc' = "keep"
    /\ UNCHANGED scan_vars
    /\ UNCHANGED call_vars
    /\ UNCHANGED <<spot_id, spot_content, enregistrements, spot_subtitles,
                   spot_duration, spot_start_time, enreg_index, all_detections,
                   result, refiltered>>

\* lines 153-156: the best of the group is kept and i moves on
KeepBest ==
    /\ pc = "keep"
    /\ kept' = Append(kept, Best(same_spot_group))
    /\ scan_i' = NextI(scan_i, scan_j)
    /\ pc' = "while"
    /\ UNCHANGED <<enreg_matches_sorted, scan_j, same_spot_group, outer_iterations>>
    /\ UNCHANGED call_vars
    /\ UNCHANGED <<spot_id, spot_content, enregistrements, spot_subtitles,
                   spot_duration, spot_start_time, enreg_index, all_detections,
                   result, refiltered>>

NextScan == EnterBody \/ ScanDone \/ JoinGroup \/ LeaveInner \/ KeepBest

\* the loops run on: a step that can be taken is taken
SpecScan == InitScan /\ [][NextScan]_vars /\ WF_vars(NextScan)

\* the steps of detect_spot_in_enregistrements end as the call as a whole does
StepsAgree ==
    pc \in {"returned", "raised"} =>
        \E whole \in {DetectSpotInEnregistrements(spot_id, spot_content, enregistrements)} :
            /\ whole.raised = (pc = "raised")
            /\ whole.result = result

(***************************************************************************)
(* Properties of the dedup step (checked under SpecDedup)                  *)
(***************************************************************************)
\* the dedup step has returned
Deduped == pc \in {"returned", "refiltered"}

Candidates == 1..Len(all_detections)

\* the candidate all_detections[i] is in the dedup output
Survives(i) == \E k \in 1..Len(result) : result[k].obj = all_detections[i].obj

Distance(i, j) ==
    IF all_detections[i].start_seconds >= all_detections[j].start_seconds
    THEN all_detections[i].start_seconds - all_detections[j].start_seconds
    ELSE all_detections[j].start_seconds - all_detections[i].start_seconds

\* two candidates of one recording less than spot_duration apart
Close(i, j) ==
    /\ i # j
    /\ all_detections[i].enregistrement_id = all_detections[j].enregistrement_id
    /\ Distance(i, j) < spot_duration

\* candidate i has the smaller start_seconds, or the same start_seconds and
\* at least the confidence of j
Wins(i, j) ==
    \/ all_detections[i].start_seconds < all_detections[j].start_seconds
    \/ /\ all_detections[i].start_seconds = all_detections[j].start_seconds
       /\ all_detections[i].confidence >= all_detections[j].confidence

\* C1: of two candidates of the same recording whose starts are less than
\* spotDuration apart, at most one is in the dedup output.
C1_AtMostOneOfClosePair ==
    Deduped => \A i, j \in Candidates : Close(i, j) => ~(Survives(i) /\ Survives(j))

C1_Witness ==
    /\ pc = "returned"
    /\ \E i, j \in Candidates : Close(i, j) /\ Survives(i) /\ ~Survives(j)

\* C2 as stated: of two candidates of the same recording less than
\* spotDuration apart, one that is in the dedup output is the one with the
\* smaller start_seconds (with equal starts, the one with the higher
\* confidence), whatever other candidates the recording has.
C2_SurvivorIsEarlierOfPair ==
    Deduped => \A i, j \in Candidates : Close(i, j) /\ Survives(i) => Wins(i, j)

\* candidate j lies less than spot_duration after a survivor that starts
\* before candidate i
AbsorbedEarlier(i, j) ==
    \E k \in 1..Len(result) :
        /\ result[k].enregistrement_id = all_detections[j].enregistrement_id
        /\ result[k].start_seconds < all_detections[i].start_seconds
        /\ result[k].start_seconds <= all_detections[j].start_seconds
        /\ all_detections[j].start_seconds - result[k].start_seconds < spot_duration

\* C2 amended: of two candidates of the same recording less than spotDuration
\* apart, one that is in the dedup output is the one with the smaller
\* start_seconds (with equal starts, the one with at least the other's
\* confidence), unless the other one lies less than spotDuration after an
\* earlier survivor of that recording.
C2_SurvivorIsEarlierUnlessAbsorbed ==
    Deduped =>
        \A i, j \in Candidates :
            Close(i, j) /\ Survives(i) => Wins(i, j) \/ AbsorbedEarlier(i, j)

C2_Witness ==
    /\ pc = "returned"
    /\ \E i, j \in Candidates :
          /\ Close(i, j) /\ Survives(i) /\ ~Survives(j)
          /\ all_detections[i].start_seconds = all_detections[j].start_seconds
          /\ all_detections[i].confidence > all_detections[j].confidence
          /\ j < i

\* the clusters of the recording enreg_id, as the scan forms them
GroupsOf(enreg_id) ==
    SameSpotGroups(SortedByStart(SelectSeq(all_detections, LAMBDA m : m.enregistrement_id = enreg_id)), 1, spot_duration)

EnregIdsOf(matches) == {matches[k].enregistrement_id : k \in 1..Len(matches)}

\* the number of clusters of the recordings of S
RECURSIVE GroupCount(_)
GroupCount(S) ==
    IF S = {} THEN 0
    ELSE LET x == CHOOSE y \in S : TRUE IN Len(GroupsOf(x)) + GroupCount(S \ {x})

\* the member of group g that is first in start_seconds and, among those,
\* highest in confidence
IsEarliestMostConfident(m, g) ==
    /\ \A l \in 1..Len(g) : m.start_seconds <= g[l].start_seconds
    /\ \A l \in 1..Len(g) :
          g[l].start_seconds = m.start_seconds => g[l].confidence <= m.confidence

\* group g has exactly one member in the dedup output, its member with the
\* smallest start_seconds and among those the highest confidence
OneKeptOf(g) ==
    \E k \in 1..Len(result) :
        /\ \E l \in 1..Len(g) : g[l].obj = result[k].obj
        /\ IsEarliestMostConfident(result[k], g)
        /\ \A k2 \in 1..Len(result) :
              (\E l \in 1..Len(g) : g[l].obj = result[k2].obj) => k2 = k

\* C3: each finished cluster contributes exactly one Detection to the output,
\* its member with the smallest start_seconds and among those the highest
\* confidence; two candidates of one recording at 100.0 s and 101.2 s with
\* spotDuration > 1.2 s collapse to the one at 100.0 s.
C3_OnePerClusterEarliest ==
    Deduped =>
        /\ \A e \in EnregIdsOf(all_detections) :
              \E groups \in {GroupsOf(e)} :
                 \A n \in 1..Len(groups) : OneKeptOf(groups[n])
        /\ Len(result) = GroupCount(EnregIdsOf(all_detections))
        /\ ( /\ Len(all_detections) = 2
             /\ all_detections[1].enregistrement_id = all_detections[2].enregistrement_id
             /\ {all_detections[1].start_seconds, all_detections[2].start_seconds} = {100000, 101200}
             /\ spot_duration > 1200 )
           => \E i \in Candidates :
                 /\ all_detections[i].start_seconds = 100000
                 /\ result = <<all_detections[i]>>

C3_Witness ==
    /\ pc = "returned"
    /\ Len(all_detections) = 2
    /\ all_detections[1].enregistrement_id = all_detections[2].enregistrement_id
    /\ all_detections[1].start_seconds = 101200
    /\ all_detections[2].start_seconds = 100000
    /\ spot_duration > 1200

\* C4: the dedup step applied to its own output returns the same Detections
\* (here: the same list).
C4_DedupIdempotent == pc = "refiltered" => refiltered = result

C4_Witness ==
    /\ pc = "refiltered"
    /\ Len(result) >= 2
    /\ Len(result) < Len(all_detections)

\* C10: the survivors of a recording are those of the dedup step applied to
\* that recording's candidates alone, whatever the other recordings
\* contribute; candidates of different recordings never share a cluster.
C10_ClustersPerRecording ==
    Deduped =>
        \A e \in EnregIdsOf(all_detections) :
            SelectSeq(result, LAMBDA m : m.enregistrement_id = e)
                = FilterAndGroupMatches(SelectSeq(all_detections, LAMBDA m : m.enregistrement_id = e), spot_duration)

C10_Witness ==
    /\ pc = "returned"
    /\ spot_duration > 0
    /\ \E i, j \in Candidates :
          /\ all_detections[i].enregistrement_id # all_detections[j].enregistrement_id
          /\ all_detections[i].start_seconds = all_detections[j].start_seconds
          /\ Survives(i) /\ Survives(j)

(***************************************************************************)
(* Properties of detect_spot_in_enregistrements (checked under Spec)       *)
(***************************************************************************)
\* the (recording, spot segment, recording segment) triples that qualify,
\* among the recordings the loop has been through; spot and recs are the
\* transcripts of the spot and of those recordings
QualifyingTriples(spot, recs) ==
    {t \in (DOMAIN recs) \X (DOMAIN spot) \X (1..2) :
        /\ t[3] <= Len(recs[t[1]])
        /\ Qualifies(FindInText(spot[t[2]].text, recs[t[1]][t[3]].text, DEFAULT_THRESHOLD))}

\* start_seconds as the claim gives it for a triple: baseSeconds +
\* r.start_seconds - (s.start_seconds - spotAnchor)
ClaimedStart(t, spot, recs) ==
    TimeToSeconds(enregistrements[t[1]][3]).val + recs[t[1]][t[3]].start_seconds - (spot[t[2]].start_seconds - spot[1].start_seconds)

MadeFrom(d, t, spot, recs) ==
    /\ d.enregistrement_id = enregistrements[t[1]][1]
    /\ d.start_seconds = ClaimedStart(t, spot, recs)
    /\ d.end_seconds = d.start_seconds + spot[Len(spot)].end_seconds

\* the candidates are the Detections the claim gives for the triples, one each
CandidatesAsClaimed(triples, spot, recs) ==
    /\ \A k \in 1..Len(all_detections) :
          \E t \in triples : MadeFrom(all_detections[k], t, spot, recs)
    /\ \A t \in triples :
          \E k \in 1..Len(all_detections) : MadeFrom(all_detections[k], t, spot, recs)
    /\ Len(all_detections) = Cardinality(triples)
    /\ \A k \in 1..Len(result) :
          result[k].end_seconds - result[k].start_seconds = spot[Len(spot)].end_seconds

\* the transcripts of the recordings the loop has been through
ParsedSoFar == [k \in 1..(enreg_index - 1) |-> Parse(enregistrements[k][2])]

C6_ResultSorted ==
    pc = "returned" =>
        \A k \in 1..(Len(result) - 1) :
            \/ result[k].enregistrement_id < result[k + 1].enregistrement_id
            \/ /\ result[k].enregistrement_id = result[k + 1].enregistrement_id
               /\ result[k].start_seconds <= result[k + 1].start_seconds

C6_Witness ==
    /\ pc = "returned"
    /\ Len(enregistrements) = 2
    /\ enregistrements[1][1] > enregistrements[2][1]
    /\ Len(result) >= 3
    /\ \A e \in 1..2 : \E k \in 1..Len(result) :
          result[k].enregistrement_id = enregistrements[e][1]

\* C7 as stated: detect_spot_in_enregistrements never raises, also for a day
\* anchor that is not a well-formed HH:MM:SS value.
C7_NeverRaises == pc # "raised"

\* the list of recordings without its k-th entry
WithoutEntry(k) ==
    SubSeq(enregistrements, 1, k - 1) \o SubSeq(enregistrements, k + 1, Len(enregistrements))

\* C8: a recording that parses to no segment is skipped: the call ends as it
\* does on the list without that recording, and no Detection returned has
\* that recording's id.
C8_EmptyRecordingSkipped ==
    pc \in {"returned", "raised"} =>
        \A k \in 1..Len(enregistrements) :
            NoSegments(Parse(enregistrements[k][2])) =>
                /\ DetectSpotInEnregistrements(spot_id, spot_content, WithoutEntry(k))
                       = [raised |-> (pc = "raised"), result |-> result]
                /\ \A n \in 1..Len(result) :
                      result[n].enregistrement_id # enregistrements[k][1]

C8_Witness ==
    /\ pc = "returned"
    /\ result # <<>>
    /\ enregistrements[1][2] = <<>>
    /\ enregistrements[1][3] = TwoParts

\* C9: a spot that parses to no segment gives the empty list, nothing is
\* raised and no recording is parsed or matched.
C9_EmptySpotReturnsEmpty ==
    NoSegments(Parse(spot_content)) =>
        /\ pc \in {"start", "returned"}
        /\ result = <<>>
        /\ all_detections = <<>>
        /\ enreg_index = 1

C9_Witness ==
    /\ pc = "returned"
    /\ spot_content = SpotBadIndex
    /\ \E k \in 1..Len(enregistrements) :
          enregistrements[k][2] = EnregOnce /\ enregistrements[k][3] = TwoParts

\* the Detections of a list with everything but the identity of the objects
Fields(matches) ==
    [n \in 1..Len(matches) |->
        [f \in (DOMAIN matches[n]) \ {"obj"} |-> matches[n][f]]]

\* the entries of the recordings list, by ascending recording id
ByAscendingId(entries) ==
    [n \in 1..Len(entries) |->
        entries[CHOOSE k \in 1..Len(entries) :
                   Cardinality({l \in 1..Len(entries) : entries[l][1] <= entries[k][1]}) = n]]

\* what a call returns, the identity of the Detection objects left out
Outcome(whole) == [raised |-> whole.raised, result |-> Fields(whole.result)]

\* C11: for recordings with pairwise distinct ids the outcome does not depend
\* on the order in which the recordings are matched and their candidates
\* merged: the call ends with the same Detections (all fields), in the same
\* order, as the call on the same recordings in ascending order of id, which
\* every permutation of the list therefore shares.
C11_OrderOfRecordingsIrrelevant ==
    pc \in {"returned", "raised"} =>
        Outcome(DetectSpotInEnregistrements(spot_id, spot_content, ByAscendingId(enregistrements)))
            = [raised |-> (pc = "raised"), result |-> Fields(result)]

C11_Witness ==
    /\ pc = "returned"
    /\ Len(enregistrements) = 2
    /\ enregistrements[1][1] > enregistrements[2][1]
    /\ \E k, l \in 1..Len(result) :
          /\ result[k].enregistrement_id = 1
          /\ result[l].enregistrement_id = 2
          /\ result[k].start_seconds >= result[l].start_seconds

\* C12: every Detection the detector creates is "exact" if and only if its
\* confidence is 100 and "fuzzy" otherwise, and its confidence lies between
\* the threshold and 100.
C12_KindAndConfidence ==
    \A n \in 1..Len(all_detections) :
        /\ all_detections[n].match_type \in {"exact", "fuzzy"}
        /\ all_detections[n].match_type = "exact" <=> all_detections[n].confidence = Pct(100)
        /\ all_detections[n].confidence >= Pct(DEFAULT_THRESHOLD)
        /\ all_detections[n].confidence <= Pct(100)

C12_Witness ==
    /\ pc = "returned"
    /\ \E n, k \in 1..Len(result) :
          /\ result[n].match_type = "exact" /\ result[n].confidence = Pct(100)
          /\ result[k].match_type = "fuzzy" /\ result[k].confidence < Pct(100)

(***************************************************************************)
(* Properties of find_in_text (checked under SpecMatcher)                  *)
(***************************************************************************)
\* what find_in_text returns for no match
Absent == [matched_text |-> None, confidence |-> 0]

\* C13: find_in_text returns the needle argument itself with confidence 100
\* whenever the haystack contains the needle verbatim under case-insensitive
\* comparison, also for a needle with leading or trailing whitespace.
C13_VerbatimReturnsNeedle ==
    (pc = "found" /\ Contains(Lower(haystack), Lower(needle))) =>
        found = [matched_text |-> Some(needle), confidence |-> Pct(100)]

C13_Witness ==
    /\ pc = "found"
    /\ Len(needle) = 2
    /\ needle[1] = " "
    /\ needle[2] = "B"
    /\ Contains(Lower(haystack), Lower(needle))
    /\ found.matched_text = Some(needle)
    /\ threshold = 101

\* the similarity of the windows of hay of the length of ndl
WindowSimilarities(ndl, hay) ==
    {SimilarityRatio(ndl, SubSeq(hay, i + 1, i + Len(ndl))) : i \in 0..(Len(hay) - Len(ndl))}

\* no window of hay reaches the threshold
BelowThreshold(ndl, hay) ==
    \A sim \in WindowSimilarities(ndl, hay) : sim < Pct(threshold)

\* C14 as stated: the result is either a text with a confidence of at least
\* the threshold or (absent, 0.0); the latter whenever the best window
\* similarity is below the threshold or the needle is longer than the
\* haystack.
C14_NeverBelowThreshold ==
    pc = "found" =>
        /\ \/ found.matched_text.some /\ found.confidence >= Pct(threshold)
           \/ found = Absent
        /\ Len(needle) > Len(haystack) => found = Absent
        /\ (WindowSimilarities(needle, haystack) # {} /\ BelowThreshold(needle, haystack))
              => found = Absent

\* C14 amended: when the lowered, stripped needle occurs in the lowered,
\* stripped haystack the result is (needle, 100.0) whatever the threshold;
\* otherwise it is either a window with a confidence of at least the
\* threshold or (absent, 0.0), the latter whenever no window reaches the
\* threshold, in particular when the stripped needle is longer than the
\* stripped haystack.
C14_BelowThresholdOnlyVerbatim ==
    pc = "found" =>
        \E ndl \in {Strip(Lower(needle))} : \E hay \in {Strip(Lower(haystack))} :
            IF Contains(hay, ndl)
            THEN found = [matched_text |-> Some(needle), confidence |-> Pct(100)]
            ELSE /\ \/ /\ found.matched_text.some
                       /\ found.confidence >= Pct(threshold)
                       /\ found.confidence < Pct(100)
                    \/ found = Absent
                 /\ BelowThreshold(ndl, hay) => found = Absent
                 /\ Len(ndl) > Len(hay) => found = Absent

C14_Witness ==
    /\ pc = "found"
    /\ ~Contains(Strip(Lower(haystack)), Strip(Lower(needle)))
    /\ threshold = 50
    /\ found.matched_text.some
    /\ found.confidence = Pct(50)

(***************************************************************************)
(* Properties of the Detection of lines 87-105 (checked under              *)
(* SpecDetection)                                                          *)
(***************************************************************************)
\* a number of milliseconds wrapped into one day
WrappedIntoDay(ms) ==
    IF ms >= 0 THEN ms % 86400000
    ELSE (86400000 - ((0 - ms) % 86400000)) % 86400000

\* time_str is HH:MM:SS,mmm with HH in 00..23, MM and SS in 00..59, and reads
\* back as ms milliseconds
RendersWithinDay(time_str, ms) ==
    /\ IsTimecode(time_str)
    /\ PyInt(SubSeq(time_str, 1, 2)).val <= 23
    /\ PyInt(SubSeq(time_str, 4, 5)).val <= 59
    /\ PyInt(SubSeq(time_str, 7, 8)).val <= 59
    /\ SubtitleTimeToSeconds(time_str) = ms

SoundBlocks == SelectSeq(srt_blocks, LAMBDA b : b.sound)

\* the segment says what the block says
SegmentOf(segment, block) ==
    /\ segment.index = block.index
    /\ segment.text = block.text
    /\ segment.start_time = block.start_time
    /\ segment.end_time = block.end_time

\* C16: parse returns the surviving blocks in the order of the input and
\* never sorts, also when index numbers or timecodes are out of order; the
\* blocks 1-2 s 'Hello' and 3-4 s 'World' give seconds [1.0, 2.0] then
\* [3.0, 4.0].
C16_SourceOrderKept ==
    pc = "parsed" =>
        /\ Len(spot_subtitles) = Len(SoundBlocks)
        /\ \A n \in 1..Len(spot_subtitles) : SegmentOf(spot_subtitles[n], SoundBlocks[n])
        /\ srt_blocks = <<HelloBlock, WorldBlock>> =>
              /\ Len(spot_subtitles) = 2
              /\ spot_subtitles[1].start_seconds = 1000 /\ spot_subtitles[1].end_seconds = 2000
              /\ spot_subtitles[2].start_seconds = 3000 /\ spot_subtitles[2].end_seconds = 4000

C16_Witness ==
    /\ pc = "parsed"
    /\ srt_blocks = <<ReversedBlock, WorldBlock, HelloBlock>>
    /\ Len(spot_subtitles) = 3
    /\ spot_subtitles[1].index = 3
    /\ spot_subtitles[1].start_seconds = 3000
    /\ spot_subtitles[3].index = 1
    /\ spot_subtitles[3].start_seconds = 1000

\* the blocks of the transcript without the k-th
WithoutBlock(k) ==
    SubSeq(srt_blocks, 1, k - 1) \o SubSeq(srt_blocks, k + 1, Len(srt_blocks))

\* C17: parse recovers per block: a block with fewer than three lines, a
\* first line that is no integer or a second line without the timecode
\* pattern gives no segment, and the segments of the other blocks are those
\* of the transcript without that block.
C17_BadBlockDiscarded ==
    pc = "parsed" =>
        \A k \in 1..Len(srt_blocks) :
            ~srt_blocks[k].sound =>
                /\ Parse(srt_blocks[k].raw) = <<>>
                /\ \A n \in 1..Len(spot_subtitles) :
                      spot_subtitles[n].start_time # Clock(5000)
                /\ spot_subtitles = Parse(Transcript(WithoutBlock(k)))

C17_Witness ==
    /\ pc = "parsed"
    /\ Len(srt_blocks) = 3
    /\ srt_blocks[1] = HelloBlock
    /\ srt_blocks[2] \in {TwoLineBlock, NoIntegerBlock, NoPatternBlock}
    /\ srt_blocks[3] = WorldBlock
    /\ Len(spot_subtitles) = 2

\* hours, minutes, seconds and milliseconds of a timecode HH:MM:SS,mmm
TimecodeFields(t) ==
    <<PyInt(SubSeq(t, 1, 2)).val, PyInt(SubSeq(t, 4, 5)).val, PyInt(SubSeq(t, 7, 8)).val, PyInt(SubSeq(t, 10, 12)).val>>

\* a timecode of the pattern with minutes and seconds below 60
ClockTime(t) ==
    /\ IsTimecode(t)
    /\ TimecodeFields(t)[2] <= 59
    /\ TimecodeFields(t)[3] <= 59

\* timecode a is not later than timecode b, field by field
NotLater(a, b) ==
    \E fa \in {TimecodeFields(a)} : \E fb \in {TimecodeFields(b)} :
        \/ fa[1] < fb[1]
        \/ fa[1] = fb[1] /\ fa[2] < fb[2]
        \/ fa[1] = fb[1] /\ fa[2] = fb[2] /\ fa[3] < fb[3]
        \/ fa[1] = fb[1] /\ fa[2] = fb[2] /\ fa[3] = fb[3] /\ fa[4] <= fb[4]

\* a timecode whose conversion to seconds fails, so that 0.0 is recorded
Degraded(t) == ~IsTimecode(t)

\* C18 as stated: every segment parse returns has start_seconds <=
\* end_seconds, unless one of its timecodes was degraded to 0.0.
C18_StartNotAfterEnd ==
    pc = "parsed" =>
        \A n \in 1..Len(spot_subtitles) :
            \/ spot_subtitles[n].start_seconds <= spot_subtitles[n].end_seconds
            \/ Degraded(spot_subtitles[n].start_time)
            \/ Degraded(spot_subtitles[n].end_time)

\* C18 amended: no timecode of a segment parse returns is degraded, and a
\* segment whose timecodes have minutes and seconds below 60 has
\* start_seconds <= end_seconds exactly when its start timecode is not later
\* than its end timecode: parse neither checks nor repairs the order.
C18_OrderAsWritten ==
    pc = "parsed" =>
        \A n \in 1..Len(spot_subtitles) :
            /\ ~Degraded(spot_subtitles[n].start_time)
            /\ ~Degraded(spot_subtitles[n].end_time)
            /\ (ClockTime(spot_subtitles[n].start_time) /\ ClockTime(spot_subtitles[n].end_time)) =>
                  (spot_subtitles[n].start_seconds <= spot_subtitles[n].end_seconds
                      <=> NotLater(spot_subtitles[n].start_time, spot_subtitles[n].end_time))

C18_Witness ==
    /\ pc = "parsed"
    /\ \E n, k \in 1..Len(spot_subtitles) :
          /\ spot_subtitles[n].start_seconds = 3000
          /\ spot_subtitles[n].end_seconds = 1000
          /\ spot_subtitles[k].start_seconds = 1000
          /\ spot_subtitles[k].end_seconds = 2000

(***************************************************************************)
(* Properties of Subtitle(...) (checked under SpecSubtitle)                *)
(***************************************************************************)
\* the seconds value a timecode string gives: what it stands for, or 0.0
\* when its conversion fails
SecondsRecorded(time_str, seconds) ==
    \E t \in TimeStrings :
        /\ t.str = time_str
        /\ seconds = IF t.converts THEN t.ms ELSE 0

\* C19: a timecode string whose conversion to seconds fails does not discard
\* the segment and raises nothing: the segment keeps its text and both
\* timecode strings, the seconds value of that timecode is 0.0 and the other
\* timecode is converted as usual.
C19_FailedTimecodeIsZero ==
    pc = "constructed" =>
        /\ rec_subtitle.index = 1
        /\ rec_subtitle.text = Hello
        /\ rec_subtitle.start_time = start_time
        /\ rec_subtitle.end_time = end_time
        /\ SecondsRecorded(start_time, rec_subtitle.start_seconds)
        /\ SecondsRecorded(end_time, rec_subtitle.end_seconds)

C19_Witness ==
    /\ pc = "constructed"
    /\ start_time = <<"0", "6", ":", "0", "0">>
    /\ end_time = Clock(2500)
    /\ rec_subtitle.start_seconds = 0
    /\ rec_subtitle.end_seconds = 2500
    /\ rec_subtitle.start_time = <<"0", "6", ":", "0", "0">>

(***************************************************************************)
(* One broadcast, one Detection (checked under SpecBroadcast)              *)
(***************************************************************************)
\* the recording segments in which spot segment number i is found
MatchesOfSegment(spot, rec, i) ==
    {j \in DOMAIN rec : Qualifies(FindInText(spot[i].text, rec[j].text, DEFAULT_THRESHOLD))}

\* rec plays the spot once from t0 on: every spot segment is found in exactly
\* one recording segment, verbatim, and that segment starts at t0 plus the
\* offset of the spot segment in the spot
OneBroadcastAt(spot, rec, t0) ==
    \A i \in DOMAIN spot :
        \E j \in DOMAIN rec :
            /\ MatchesOfSegment(spot, rec, i) = {j}
            /\ Contains(Lower(rec[j].text), Lower(spot[i].text))
            /\ rec[j].start_seconds = t0 + (spot[i].start_seconds - spot[1].start_seconds)

\* the returned Detections of recording enreg_id
ReturnedFor(enreg_id) ==
    {k \in DOMAIN result : result[k].enregistrement_id = enreg_id}

\* all of them are the broadcast at t0 after heure_debut, confidence 100
AllAtStart(returned, heure_debut, t0) ==
    \A k \in returned :
        /\ result[k].start_seconds = TimeToSeconds(heure_debut).val + t0
        /\ result[k].confidence = Pct(100)

\* the statement about the recordings that play the spot once; always_one
\* says whether a spot of several segments whose last one ends at 0 is also
\* said to get one Detection
BroadcastsReturn(always_one) ==
    pc # "detect" =>
        \E spot \in {Parse(spot_content)} :
            \A e \in DOMAIN enregistrements :
                \E rec \in {Parse(enregistrements[e][2])} :
                    \A j \in DOMAIN rec :
                        OneBroadcastAt(spot, rec, rec[j].start_seconds) =>
                            /\ pc = "returned"
                            /\ Cardinality(ReturnedFor(enregistrements[e][1]))
                                  = IF always_one \/ spot[Len(spot)].end_seconds > 0
                                    THEN 1 ELSE Len(spot)
                            /\ AllAtStart(ReturnedFor(enregistrements[e][1]),
                                          enregistrements[e][3], rec[j].start_seconds)

\* C20 as stated: a recording that contains every one of the k segments of
\* the spot verbatim, the i-th at t0 plus its offset in the spot, and in which
\* no other pair of segments matches, gets exactly one Detection, with
\* start_seconds = baseSeconds + t0 and confidence 100.
C20_OneBroadcastOneDetection == BroadcastsReturn(TRUE)

\* C20, amended: such a recording gets exactly one Detection, with
\* start_seconds = baseSeconds + t0 and confidence 100, when the spot has one
\* segment or its duration (the end of its last segment) is above 0; for a
\* spot of k >= 2 segments and duration 0 it gets k Detections, all with that
\* start and confidence, since no distance between candidates is below 0.
C20_OneDetectionUnlessNoDuration == BroadcastsReturn(FALSE)

\* three segments, said between other words from 100 s on in a recording that
\* began at 23:59:00, next to a recording that carries other matches
C20_Witness ==
    /\ pc = "returned"
    /\ Len(enregistrements) = 2
    /\ enregistrements[2][1] = 1
    /\ enregistrements[2][3] = BeforeMidnight
    /\ enregistrements[1][2] = EnregFuzzy
    /\ \E spot \in {Parse(spot_content)} : \E rec \in {Parse(enregistrements[2][2])} :
          /\ Len(spot) = 3
          /\ OneBroadcastAt(spot, rec, 100000)
          /\ rec[1].text # spot[1].text
    /\ Cardinality(ReturnedFor(1)) = 1
    /\ \E k \in ReturnedFor(1) : result[k].start_seconds = 86340000 + 100000

(***************************************************************************)
(* Exact and fuzzy results of find_in_text (checked under SpecMatcher)     *)
(***************************************************************************)
\* the trimmed, lower-cased needle occurs in the trimmed, lower-cased haystack
Verbatim(ndl, hay) == Contains(Strip(Lower(hay)), Strip(Lower(ndl)))

\* C21: the sliding-window path of find_in_text never returns confidence 100:
\* whenever the trimmed lower-cased needle is not a substring of the trimmed
\* lower-cased haystack the returned confidence is below 100; so a result
\* that qualifies for a Detection gets match_type exact exactly when the
\* needle occurs verbatim.
C21_ExactIffVerbatim ==
    pc = "found" =>
        \E verbatim \in {Verbatim(needle, haystack)} :
            /\ ~verbatim => found.confidence < Pct(100)
            /\ (Truthy(found.matched_text) /\ found.confidence >= Pct(threshold)) =>
                  (MatchType(found.confidence) = "exact" <=> verbatim)

\* the needle with its two characters swapped is found by the window scan
C21_Witness ==
    /\ pc = "found"
    /\ threshold = 0
    /\ Len(needle) = 2
    /\ Len(haystack) = 2
    /\ Lower(needle)[1] = haystack[2]
    /\ Lower(needle)[2] = haystack[1]
    /\ ~Verbatim(needle, haystack)
    /\ Truthy(found.matched_text)
    /\ found.confidence = Pct(50)
    /\ MatchType(found.confidence) = "fuzzy"

(***************************************************************************)
(* Clusters anchored at their first candidate (checked under SpecDedup)    *)
(***************************************************************************)
\* the candidates of recording enreg_id sorted by start_seconds
SortedOf(enreg_id) ==
    SortedByStart(SelectSeq(all_detections, LAMBDA m : m.enregistrement_id = enreg_id))

\* the position in sorted of the candidate that opened the cluster of
\* sorted[i], by the rule of the claim: a candidate joins the cluster of
\* current when it starts less than spot_duration after current, and opens a
\* new one otherwise
RECURSIVE AnchorOf(_, _)
AnchorOf(sorted, i) ==
    IF i = 1 THEN 1
    ELSE LET current == AnchorOf(sorted, i - 1)
         IN  IF sorted[i].start_seconds - sorted[current].start_seconds < spot_duration
             THEN current ELSE i

Openers(sorted) == {i \in 1..Len(sorted) : AnchorOf(sorted, i) = i}

\* the clusters the scan forms are the ones the rule gives: they follow one
\* another in sorted and their first members are the openers
ClustersAsAnchored(sorted, groups) ==
    /\ Flatten(groups) = sorted
    /\ Len(groups) = Cardinality(Openers(sorted))
    /\ {groups[n][1].obj : n \in 1..Len(groups)} = {sorted[i].obj : i \in Openers(sorted)}

\* the opener of a cluster is in the output
OpenerSurvives(sorted, i) ==
    \E k \in 1..Len(result) : result[k].obj = sorted[i].obj

\* a candidate of the opener's cluster and start_seconds is in the output: the
\* opener, unless the cluster has a candidate of that start_seconds with a
\* higher confidence, which then is
OpenerOrBetterSurvives(sorted, i) ==
    \E k \in 1..Len(result) : \E j \in 1..Len(sorted) :
        /\ result[k].obj = sorted[j].obj
        /\ AnchorOf(sorted, j) = i
        /\ sorted[j].start_seconds = sorted[i].start_seconds
        /\ sorted[j].confidence >= sorted[i].confidence
        /\ (j # i <=> \E l \in 1..Len(sorted) :
                        /\ AnchorOf(sorted, l) = i
                        /\ sorted[l].start_seconds = sorted[i].start_seconds
                        /\ sorted[l].confidence > sorted[i].confidence)

\* two Detections of the output that belong to one recording are at least
\* spot_duration apart
SurvivorsApart ==
    \A k, l \in 1..Len(result) :
        (k # l /\ result[k].enregistrement_id = result[l].enregistrement_id
               /\ result[k].start_seconds <= result[l].start_seconds)
            => result[l].start_seconds - result[k].start_seconds >= spot_duration

\* C22 as stated: clusters are anchored at their first candidate and do not
\* chain; the first candidate at distance >= spotDuration from current opens
\* a new cluster and survives; any two surviving Detections of one recording
\* are at least spotDuration apart.
C22_OpenersSurvive ==
    Deduped =>
        /\ \A e \in EnregIdsOf(all_detections) :
              \E sorted \in {SortedOf(e)} :
                 /\ ClustersAsAnchored(sorted, GroupsOf(e))
                 /\ \A i \in Openers(sorted) : OpenerSurvives(sorted, i)
        /\ SurvivorsApart

\* C22 amended: clusters are anchored at their first candidate and do not
\* chain; of the cluster opened by the first candidate at distance >=
\* spotDuration from current, a candidate with the opener's start_seconds
\* survives (the opener itself unless the cluster has a candidate of the same
\* start_seconds and higher confidence); any two surviving Detections of one
\* recording are at least spotDuration apart.
C22_AnchoredClusters ==
    Deduped =>
        /\ \A e \in EnregIdsOf(all_detections) :
              \E sorted \in {SortedOf(e)} :
                 /\ ClustersAsAnchored(sorted, GroupsOf(e))
                 /\ \A i \in Openers(sorted) : OpenerOrBetterSurvives(sorted, i)
        /\ SurvivorsApart

\* 100.0 s, 101.2 s and 102.0 s with spotDuration 2.0: the candidate at
\* 102.0 s opens a cluster and survives, 0.8 s after the dropped one
C22_Witness ==
    /\ pc = "returned"
    /\ spot_duration = 2000
    /\ Len(all_detections) = 3
    /\ \A i \in Candidates : all_detections[i].enregistrement_id = 1
    /\ {all_detections[i].start_seconds : i \in Candidates} = {100000, 101200, 102000}
    /\ Openers(SortedOf(1)) = {1, 3}
    /\ {result[k].start_seconds : k \in 1..Len(result)} = {100000, 102000}

(***************************************************************************)
(* What the dedup step keeps and drops (checked under SpecDedup)           *)
(***************************************************************************)
\* the smallest start_seconds among the candidates of recording enreg_id
EarliestStart(enreg_id) ==
    SetMin({all_detections[i].start_seconds : i \in {c \in Candidates : all_detections[c].enregistrement_id = enreg_id}})

\* a Detection of the output, of the recording of candidate i, that starts at
\* or before it and less than spot_duration before it
CoveredBySurvivor(i) ==
    \E k \in 1..Len(result) :
        /\ result[k].enregistrement_id = all_detections[i].enregistrement_id
        /\ result[k].start_seconds <= all_detections[i].start_seconds
        /\ all_detections[i].start_seconds < result[k].start_seconds + spot_duration

\* C23: the output of the dedup step is a sub-collection of the candidates
\* with all fields unchanged; for every recording id that has a candidate, a
\* candidate with the smallest start_seconds of that recording is in the
\* output; and every dropped candidate c has a surviving Detection s of its
\* recording with s.start_seconds <= c.start_seconds < s.start_seconds +
\* spotDuration.
C23_NothingInventedNothingLost ==
    Deduped =>
        /\ \A k \in 1..Len(result) : \E i \in Candidates : result[k] = all_detections[i]
        /\ \A k, l \in 1..Len(result) : result[k].obj = result[l].obj => k = l
        /\ \A e \in EnregIdsOf(all_detections) :
              \E k \in 1..Len(result) :
                 /\ result[k].enregistrement_id = e
                 /\ result[k].start_seconds = EarliestStart(e)
        /\ \A i \in Candidates : ~Survives(i) => CoveredBySurvivor(i)

\* two recordings, one of them with a dropped candidate that is more
\* confident than the survivor that covers it
C23_Witness ==
    /\ pc = "returned"
    /\ Cardinality(EnregIdsOf(result)) = 2
    /\ \E i \in Candidates : \E k \in 1..Len(result) :
          /\ ~Survives(i)
          /\ result[k].enregistrement_id = all_detections[i].enregistrement_id
          /\ result[k].start_seconds < all_detections[i].start_seconds
          /\ result[k].confidence < all_detections[i].confidence

(***************************************************************************)
(* Seconds are not wrapped at midnight (checked under SpecAround)          *)
(***************************************************************************)
\* the candidate made last holds the unreduced sums of lines 91-92
StoredUnwrapped(d) ==
    /\ d.start_seconds = base_seconds + rec_subtitle.start_seconds - segment_pos_in_spot
    /\ d.end_seconds = d.start_seconds + spot_duration

\* C24: start_seconds and end_seconds of a Detection are baseSeconds + offset
\* without reduction modulo 86400 (they can be negative or a day and more);
\* only start_time and end_time are wrapped; the dedup step and the final
\* sort compare the unwrapped values: survivors are at least spotDuration
\* apart by their true distance, a dropped candidate lies less than
\* spotDuration after a survivor, and the output is in ascending order of the
\* unwrapped start_seconds.
C24_SecondsNotWrapped ==
    /\ all_detections # <<>> => StoredUnwrapped(all_detections[Len(all_detections)])
    /\ \A n \in 1..Len(all_detections) :
          /\ RendersWithinDay(all_detections[n].start_time, WrappedIntoDay(all_detections[n].start_seconds))
          /\ RendersWithinDay(all_detections[n].end_time, WrappedIntoDay(all_detections[n].end_seconds))
    /\ pc = "returned" =>
          /\ \A i, j \in Candidates :
                (i # j /\ Survives(i) /\ Survives(j)) => Distance(i, j) >= spot_duration
          /\ \A i \in Candidates : ~Survives(i) => CoveredBySurvivor(i)
          /\ \A k, l \in 1..Len(result) :
                k < l => result[k].start_seconds <= result[l].start_seconds

\* a candidate at 00:00:00,500 of the next day and then one at 23:59:59,500,
\* one second apart: the one before midnight is kept
C24_Witness ==
    /\ pc = "returned"
    /\ spot_duration = 2000
    /\ Len(all_detections) = 2
    /\ all_detections[1].start_seconds = 86400500
    /\ all_detections[1].start_time = Clock(500)
    /\ all_detections[2].start_seconds = 86399500
    /\ all_detections[2].start_time = Clock(86399500)
    /\ result = <<all_detections[2]>>

(***************************************************************************)
(* No degraded timecode comes out of parse (checked under SpecParse)       *)
(***************************************************************************)
\* the characters of t at the positions ps are decimal digits
DigitsAt(t, ps) == \A k \in ps : k <= Len(t) /\ t[k] \in Digits

\* t is two digits, two digits and two digits with three digits, and ms is
\* hours * 3600 + minutes * 60 + seconds.millis of it, in milliseconds
ReadsAs(t, ms) ==
    /\ Len(t) = 12
    /\ DigitsAt(t, {1, 2, 4, 5, 7, 8, 10, 11, 12})
    /\ ms = DigitsValue(SubSeq(t, 1, 2)) * 3600000
              + DigitsValue(SubSeq(t, 4, 5)) * 60000
              + DigitsValue(SubSeq(t, 7, 8)) * 1000
              + DigitsValue(SubSeq(t, 10, 12))

\* C25: every segment parse returns has start_seconds and end_seconds equal
\* to hours * 3600 + minutes * 60 + seconds.millis of its timecode strings,
\* which are numeric; the 0.0 of a failed conversion never comes out of
\* parse, and a block whose timecode is not numeric gives no segment.
C25_NoFallbackThroughParse ==
    pc = "parsed" =>
        /\ \A n \in 1..Len(spot_subtitles) :
              /\ ReadsAs(spot_subtitles[n].start_time, spot_subtitles[n].start_seconds)
              /\ ReadsAs(spot_subtitles[n].end_time, spot_subtitles[n].end_seconds)
        /\ Len(spot_subtitles) =
              Cardinality({k \in 1..Len(srt_blocks) :
                              /\ srt_blocks[k].sound
                              /\ DigitsAt(srt_blocks[k].start_time, {1, 2})})

\* a block with letters for hours between a cue that starts at 0.0 and a cue
\* of 99 minutes
C25_Witness ==
    /\ pc = "parsed"
    /\ srt_blocks = <<ZeroBlock, LettersBlock, LongMinutesBlock>>
    /\ Len(spot_subtitles) = 2
    /\ spot_subtitles[1].start_seconds = 0
    /\ spot_subtitles[1].end_seconds = 500
    /\ spot_subtitles[2].start_seconds = 5940000

(***************************************************************************)
(* Termination of the scan (checked under SpecScan)                        *)
(***************************************************************************)
\* what the scan has kept when it ends is what Kept computes at once
ScanAgrees ==
    pc = "scanned" => kept = Kept(enreg_matches_sorted, spot_duration)

\* the group under construction is the run of candidates from i up to j
GroupIsRun ==
    pc \in {"inner", "keep"} =>
        /\ scan_j >= scan_i + 1
        /\ scan_j <= Len(enreg_matches_sorted)
        /\ same_spot_group = SubSeq(enreg_matches_sorted, scan_i + 1, scan_j)

\* between iterations one Detection has been kept per iteration, and the scan
\* ends with i at the end of the list
OneKeptPerIteration ==
    /\ pc \in {"while", "scanned"} => Len(kept) = outer_iterations
    /\ pc = "scanned" => scan_i = Len(enreg_matches_sorted)

\* i moves at the end of an iteration only, forward, to j
IndexAdvances ==
    /\ pc = "keep" => (scan_i' > scan_i /\ scan_i' = scan_j /\ Len(kept') = Len(kept) + 1)
    /\ pc # "keep" => (scan_i' = scan_i /\ kept' = kept)

\* C26: the dedup scan terminates for every candidate list and every
\* spotDuration, 0 included: in each iteration of the outer loop i strictly
\* increases (the inner loop ends with j >= i + 1 and i is set to j), every
\* candidate is placed in exactly one cluster (the clusters are the runs from
\* i up to j, each starting where the one before ended, the last ending with
\* the list), and the number of survivors is the number of outer iterations.
C26_ScanTerminates ==
    /\ <>(pc = "scanned")
    /\ [][IndexAdvances]_vars
    /\ [](GroupIsRun /\ OneKeptPerIteration)

\* three candidates and spot_duration 0: three iterations, three survivors
C26_Witness ==
    /\ pc = "scanned"
    /\ spot_duration = 0
    /\ Len(enreg_matches_sorted) = 3
    /\ outer_iterations = 3
    /\ Len(kept) = 3
    /\ enreg_matches_sorted[1].start_seconds = enreg_matches_sorted[2].start_seconds

=============================================================================
